---- MODULE Spec2Model ----
(***************************************************************************)
(* Verification model of the web-traffic counting pipeline:                *)
(*   - the Redis fast counter store     (redis/index.ts, redisCounter)     *)
(*   - the event buffer and batcher     (queues/event.queue.ts)            *)
(*   - the batch worker                 (worker/event.worker.ts)           *)
(*   - the aggregation engine           (services/traffic.ts)              *)
(* Every asynchronous function is cut at its awaits: one action per        *)
(* stretch of code that runs without yielding the event loop, or per       *)
(* command executed atomically by Redis or by the database.                *)
(***************************************************************************)
EXTENDS Integers, Sequences, FiniteSets, Bags

(***************************************************************************)
(* Bounds of the model                                                     *)
(***************************************************************************)
\* number of redisCounter calls made in one behaviour
MaxCalls == 3
\* largest amount passed to increment
MaxAmount == 2
\* largest durable value passed to initializeFromDb, and largest initial
\* counter value
MaxDbValue == 3

\* the null reply of GET: the key is absent (no decimal string has a negative digit)
Nil == <<-1>>

\* number of queueTrafficEvent / queueTrafficEvents calls made in one behaviour
MaxEnqueues == 2
\* largest number of events passed to one queueTrafficEvents call
MaxBulk == 2
\* BATCH_SIZE of event.queue.ts (100 there), scaled down to keep the buffer small
BATCH_SIZE == 2

\* number of recordHits calls made in one behaviour
MaxHits == 2
\* number of aggregations the timers start in one behaviour
MaxAggregations == 2

\* number of dashboard clients that connect in one behaviour
MaxClients == 2
\* minBroadcastInterval of websocket/index.ts (50 ms there), in time units
minBroadcastInterval == 2
\* number of hits published in one behaviour
MaxMessages == 4
\* number of poll ticks, heartbeat ticks, getTraffic requests and failing
\* sends in one behaviour
MaxPolls == 2
MaxPings == 2
MaxRequests == 1
MaxFailures == 1
\* the greatest total a message carries
MaxShown == 3
\* the frames an animation of 200 ms is drawn in
AnimationFrames == 2

VARIABLES
  \* ---- Redis fast counter store -------------------------------------
  dateCounter,   \* traffic:counter:<date> -> Nil (absent) or a decimal string
  dateTtl,       \* traffic:counter:<date> -> TRUE when an expiry is set
  initialCounter,\* the store as it was before any call (history)
  calls,         \* call slot -> the redisCounter call running in it
  minuteCounter, \* traffic:minute:<minuteKey> -> Nil or a decimal string
  pendingMinutes,\* the set traffic:pending_minutes
  \* ---- durable store ------------------------------------------------
  trafficMinute, \* traffic_minute: minute timestamp -> count (0: no row)
  \* ---- event buffer and batcher (module state of event.queue.ts) ----
  eventBuffer,   \* the pending events, oldest first
  flushTimer,    \* TRUE when the flush timeout is armed
  isProcessingBuffer,
  inflight,      \* the flushEventBuffer runs awaiting batchQueue.add
  batchQueue,    \* the write-batch jobs added to the queue, oldest first
  enqueues,      \* call slot -> the queueTrafficEvent(s) call running in it
  force,         \* the forceFlush call
  \* ---- aggregation engine (TrafficService) ---------------------------
  clock,         \* position of the wall clock in Clock
  aggregationTimer, \* the armed debounce timeout: {} or {its minuteTimestamp}
  trafficHourly, \* traffic_hourly: hour start -> count (0: no row)
  trafficDaily,  \* traffic_daily: day start -> count (0: no row)
  trafficWeekly, \* traffic_weekly: <<year, weekNumber>> -> count (0: no row)
  trafficMonthly,\* traffic_monthly: month start -> count (0: no row)
  runs,          \* bag of the database commands the aggregation runs await
  hourReads,     \* hour start -> the totals its hour runs have read (history)
  hits,          \* number of recordHits calls made
  started,       \* number of aggregations started by a timer
  \* ---- startup reconciliation (TrafficService) -----------------------
  startup,       \* the initializeRedisCounters run
  \* ---- fan-out to the dashboards (WebSocketManager) ------------------
  wsNow,         \* Date.now(), in time units
  todayTotal,    \* today's count as the traffic service reports it
  subscription,  \* progress of setupRealtimeSubscription
  wait,  \* the wait for "ready": listeners registered, timer armed, handlers run
  subscriptionReady,
  messageQueue,  \* the realtime messages not yet broadcast, oldest first
  broadcastThrottleTimer, \* {} or {the time the timeout is due}
  lastBroadcastTime,
  clients,       \* the Set of clients, in insertion order
  socket,        \* client -> "none", "open" or "closed" (readyState)
  isAlive,       \* client -> the isAlive flag
  pinged,        \* client -> TRUE while a ping is unanswered
  lastDataSent,  \* client -> the lastDataSent field
  sent,          \* client -> the messages sent to it, oldest first (history)
  fetches,       \* bag of the data fetches that broadcasts and sends await
  broadcastStarts, \* the times at which a broadcast took a message (history)
  wsCount,       \* how many hits, polls, pings, requests and failures so far
  \* ---- HTTP boundary (routes/traffic.ts) ----------------------------
  http,          \* call slot -> the POST /hit request served in it
  unhandled,     \* the call slots whose recordHit promise rejected unhandled
  \* ---- read path (TrafficService.getTrafficForDate) -----------------
  read,          \* the getTrafficForDate call
  \* ---- failures of the durable store --------------------------------
  aggFailed,     \* number of database commands that failed
  \* ---- TrafficService that buffers in memory (services/traffic.ts) ---
  pendingByMinute, \* the Map minuteKey -> count, as its entries in order
  flushes,       \* bag of the flushToDatabase runs: the entries each has left
  accepted,      \* minuteKey -> the hits recordHits accepted (history)
  \* ---- batch worker (worker/event.worker.ts) ------------------------
  worker,        \* the write-batch job the worker has taken
  \* ---- process signals (the shutdown handler of the server) ----------
  shutdown,      \* the shutdown run: its awaited step, the exit timer, the exit
  \* ---- dashboard (components/website-traffic-chart.tsx) --------------
  dashboard,     \* the totals the page holds and the two counters it shows
  \* ---- operator routes (POST /api/sync, POST /api/reset/redis) ------
  resync,        \* the run of a route: its step, keys, day and count
  \* ---- realtime channel (publishTrafficUpdate) ----------------------
  published      \* per enqueue call: the todayTotal of its message

storeVars == <<dateCounter, dateTtl>>
callVars == <<initialCounter, calls>>
minuteVars == <<minuteCounter, pendingMinutes>>
bufferVars == <<eventBuffer, flushTimer, isProcessingBuffer, inflight, batchQueue>>
queueVars == <<minuteVars, trafficMinute, bufferVars, enqueues, force>>
tableVars == <<trafficHourly, trafficDaily, trafficWeekly, trafficMonthly>>
aggVars == <<clock, aggregationTimer, tableVars, runs, hourReads, hits, started>>
\* the variables of the later parts of the model, which the parts before
\* them leave alone
clientVars == <<clients, socket, isAlive, pinged, lastDataSent, sent>>
throttleVars == <<messageQueue, broadcastThrottleTimer, lastBroadcastTime, broadcastStarts>>
subVars == <<subscription, subscriptionReady, wait>>
wsVars == <<wsNow, todayTotal, subVars, throttleVars, clientVars, fetches, wsCount>>
hitVars == <<http, unhandled>>
memVars == <<pendingByMinute, flushes, accepted>>
afterResync == <<published>>
afterDashboard == <<resync, afterResync>>
afterShutdown == <<dashboard, afterDashboard>>
afterWorker == <<shutdown, afterShutdown>>
afterMem == <<worker, afterWorker>>
afterFail == <<memVars, afterMem>>
afterRead == <<aggFailed, afterFail>>
afterHit == <<read, afterRead>>
afterWs == <<hitVars, afterHit>>
afterStartup == <<wsVars, afterWs>>
otherVars == <<startup, afterStartup>>
vars == <<storeVars, callVars, queueVars, aggVars, otherVars>>

(***************************************************************************)
(* Time.  A timestamp is a number of minutes of local time since the       *)
(* midnight that began 1970-01-01 (a zone without clock changes); a minute *)
(* key (toISOString of a timestamp cut to the minute, read back with       *)
(* new Date) is the timestamp itself, and a date key (getLocalDateString)  *)
(* is the day number of the timestamp.                                     *)
(***************************************************************************)
getLocalDateString(t) == t \div 1440
\* "now" of the queue model: Saturday 2025-01-04, 10:05
NowMinute == 20092 * 1440 + 605
\* the same time of day on the day before (POST /hit?date=2025-01-03)
PastMinute == 20091 * 1440 + 605
MinuteKeys == {PastMinute, NowMinute}
Today == getLocalDateString(NowMinute)

(***************************************************************************)
(* Redis strings.  A value is stored as its decimal digits; INCRBY and     *)
(* parseInt read the digits back.                                          *)
(***************************************************************************)
RECURSIVE NumberToString(_)
NumberToString(n) == IF n < 10 THEN <<n>> ELSE NumberToString(n \div 10) \o <<n % 10>>

RECURSIVE ParseInt(_)
ParseInt(s) ==
  IF Len(s) = 0 THEN 0
  ELSE 10 * ParseInt(SubSeq(s, 1, Len(s) - 1)) + s[Len(s)]

\* parseInt(result || "0", 10)
ParseOrZero(v) == IF v = Nil \/ v = <<>> THEN 0 ELSE ParseInt(v)

\* the date keys
Dates == {getLocalDateString(t) : t \in MinuteKeys}
Procs == 1..MaxCalls

IdleCall == [pc |-> "idle", kind |-> "none", date |-> Today, arg |-> 0, cur |-> Nil]

\* INCRBY key amount: one atomic read-modify-write inside Redis
IncrbyLost(cur, amount) == NumberToString(amount)
Incrby(cur, amount) == NumberToString(ParseOrZero(cur) + amount)

\* the guard of initializeFromDb: !currentValue || parseInt(currentValue) < dbValue
NeedsInitAlways(currentValue, dbValue) == TRUE
NeedsInit(currentValue, dbValue) ==
  \/ currentValue = Nil
  \/ currentValue = <<>>
  \/ ParseInt(currentValue) < dbValue

(***************************************************************************)
(* redisCounter.increment(date, amount)                                    *)
(***************************************************************************)
\* the call is made and its INCRBY executes
IncrementIncrby(p, d, n) ==
  /\ calls[p].pc = "idle"
  /\ dateCounter' = [dateCounter EXCEPT ![d] = Incrby(dateCounter[d], n)]
  /\ calls' = [calls EXCEPT ![p] =
       [pc |-> "incr_expire", kind |-> "incr", date |-> d, arg |-> n,
        cur |-> Incrby(dateCounter[d], n)]]
  /\ UNCHANGED <<dateTtl, initialCounter, queueVars, aggVars, otherVars>>

\* EXPIRE key 8d, then the call returns the INCRBY result
IncrementExpire(p) ==
  /\ calls[p].pc = "incr_expire"
  /\ dateTtl' = [dateTtl EXCEPT ![calls[p].date] = dateCounter[calls[p].date] # Nil]
  /\ calls' = [calls EXCEPT ![p].pc = "done"]
  /\ UNCHANGED <<dateCounter, initialCounter, queueVars, aggVars, otherVars>>

(***************************************************************************)
(* redisCounter.initializeFromDb(date, dbValue)                            *)
(***************************************************************************)
\* the call is made and its GET executes; the guard is evaluated on the reply
InitializeGet(p, d, dbValue) ==
  /\ calls[p].pc = "idle"
  /\ calls' = [calls EXCEPT ![p] =
       [pc |-> IF NeedsInit(dateCounter[d], dbValue) THEN "init_set" ELSE "done",
        kind |-> "init", date |-> d, arg |-> dbValue, cur |-> dateCounter[d]]]
  /\ UNCHANGED <<dateCounter, dateTtl, initialCounter, queueVars, aggVars, otherVars>>

\* SET key dbValue.toString()
InitializeSet(p) ==
  /\ calls[p].pc = "init_set"
  /\ dateCounter' = [dateCounter EXCEPT ![calls[p].date] = NumberToString(calls[p].arg)]
  \* SET without KEEPTTL discards the expiry of the key
  /\ dateTtl' = [dateTtl EXCEPT ![calls[p].date] = FALSE]
  /\ calls' = [calls EXCEPT ![p].pc = "init_expire"]
  /\ UNCHANGED <<initialCounter, queueVars, aggVars, otherVars>>

\* EXPIRE key 8d
InitializeExpire(p) ==
  /\ calls[p].pc = "init_expire"
  /\ dateTtl' = [dateTtl EXCEPT ![calls[p].date] = dateCounter[calls[p].date] # Nil]
  /\ calls' = [calls EXCEPT ![p].pc = "done"]
  /\ UNCHANGED <<dateCounter, initialCounter, queueVars, aggVars, otherVars>>

(***************************************************************************)
(* redisCounter.syncFromDb(date, dbValue)                                  *)
(***************************************************************************)
\* the guard of syncFromDb: parseInt(currentValue || "0", 10) !== dbValue
NeedsSyncIfLower(currentValue, dbValue) == ParseOrZero(currentValue) < dbValue
NeedsSync(currentValue, dbValue) == ParseOrZero(currentValue) # dbValue

\* the call is made and its GET executes; the guard is evaluated on the reply
SyncFromDbGet(p, d, dbValue) ==
  /\ calls[p].pc = "idle"
  /\ calls' = [calls EXCEPT ![p] =
       [pc |-> IF NeedsSync(dateCounter[d], dbValue) THEN "sync_set" ELSE "done",
        kind |-> "sync", date |-> d, arg |-> dbValue, cur |-> dateCounter[d]]]
  /\ UNCHANGED <<dateCounter, dateTtl, initialCounter, queueVars, aggVars, otherVars>>

\* SET key dbValue.toString()
SyncFromDbSet(p) ==
  /\ calls[p].pc = "sync_set"
  /\ dateCounter' = [dateCounter EXCEPT ![calls[p].date] = NumberToString(calls[p].arg)]
  /\ dateTtl' = [dateTtl EXCEPT ![calls[p].date] = FALSE]
  /\ calls' = [calls EXCEPT ![p].pc = "sync_expire"]
  /\ UNCHANGED <<initialCounter, queueVars, aggVars, otherVars>>

\* EXPIRE key 8d
SyncFromDbExpire(p) ==
  /\ calls[p].pc = "sync_expire"
  /\ dateTtl' = [dateTtl EXCEPT ![calls[p].date] = dateCounter[calls[p].date] # Nil]
  /\ calls' = [calls EXCEPT ![p].pc = "done"]
  /\ UNCHANGED <<dateCounter, initialCounter, queueVars, aggVars, otherVars>>

(***************************************************************************)
(* Event buffer and batcher (queues/event.queue.ts)                        *)
(***************************************************************************)
Enqueuers == 1..MaxEnqueues

IdleEnqueue == [pc |-> "idle", kind |-> "none", ts |-> NowMinute, n |-> 0]
IdleForce == [pc |-> "idle", left |-> {}, key |-> NowMinute, redisCount |-> 0,
              accepted |-> {}, clean |-> FALSE]

\* the events a call passes: TrafficEvent objects, told apart by call and index
EventsOf(p, ts, n) == [i \in 1..n |-> [call |-> p, i |-> i, timestamp |-> ts]]

\* the state of the module after it is loaded
BufferIdle ==
  /\ eventBuffer = <<>>
  /\ flushTimer = FALSE
  /\ isProcessingBuffer = FALSE
  /\ inflight = {}
  /\ batchQueue = <<>>
  /\ enqueues = [p \in Enqueuers |-> IdleEnqueue]
  /\ force = IdleForce

\* the module after it is loaded, with an empty Redis and database
QueueIdle ==
  /\ minuteCounter = [k \in MinuteKeys |-> Nil]
  /\ pendingMinutes = {}
  /\ trafficMinute = [k \in MinuteKeys |-> 0]
  /\ BufferIdle

\* who called flushEventBuffer: the timer callback, forceFlush, or enqueue call p
ByTimer == [who |-> "timer", p |-> 0]
ByForce == [who |-> "force", p |-> 0]
ByEnqueue(p) == [who |-> "enqueue", p |-> p]

\* flushEventBuffer returns early: if (eventBuffer.length === 0 || isProcessingBuffer)
FlushGuardNoSingleFlight == eventBuffer = <<>>
FlushGuard == eventBuffer = <<>> \/ isProcessingBuffer

\* flushEventBuffer, from its call to its await of batchQueue.add (or its early
\* return), on behalf of caller `by`, with the buffer `buf` the caller leaves
FlushStart(by, buf) ==
  /\ flushTimer' = FALSE
  /\ IF FlushGuard
     THEN /\ eventBuffer' = buf
          /\ UNCHANGED <<isProcessingBuffer, inflight>>
     ELSE /\ isProcessingBuffer' = TRUE
          /\ inflight' = inflight \cup {[by |-> by, eventsToFlush |-> buf]}
          /\ eventBuffer' = <<>>
  /\ UNCHANGED batchQueue

\* whether the flushEventBuffer call the caller makes now will await the add
FlushAwaits == ~FlushGuard

\* the catch block: eventBuffer = [...eventsToFlush, ...eventBuffer]
PutBackDropped(eventsToFlush, buffer) == buffer
PutBack(eventsToFlush, buffer) == eventsToFlush \o buffer

\* what the caller of a finished flushEventBuffer does next
Resume(by) ==
  IF by.who = "enqueue"
  THEN /\ enqueues' = [enqueues EXCEPT ![by.p] = [@ EXCEPT !.pc = "done"]]
       /\ UNCHANGED force
  ELSE IF by.who = "force"
  THEN /\ force' = [force EXCEPT !.pc = "sync_members"]
       /\ UNCHANGED enqueues
  ELSE UNCHANGED <<enqueues, force>>

\* batchQueue.add resolves: the job is in the queue; finally-block
FlushAddOk(f) ==
  /\ f \in inflight
  /\ batchQueue' = Append(batchQueue, f.eventsToFlush)
  /\ isProcessingBuffer' = FALSE
  /\ inflight' = inflight \ {f}
  /\ Resume(f.by)
  /\ UNCHANGED <<eventBuffer, flushTimer, minuteVars, trafficMinute, storeVars, callVars, aggVars, otherVars>>

\* batchQueue.add rejects: catch-block, then finally-block
FlushAddFail(f) ==
  /\ f \in inflight
  /\ eventBuffer' = PutBack(f.eventsToFlush, eventBuffer)
  /\ isProcessingBuffer' = FALSE
  /\ inflight' = inflight \ {f}
  /\ Resume(f.by)
  /\ UNCHANGED <<batchQueue, flushTimer, minuteVars, trafficMinute, storeVars, callVars, aggVars, otherVars>>

\* the flush timeout fires: async () => { await flushEventBuffer(); }
TimerFires ==
  /\ flushTimer
  /\ FlushStart(ByTimer, eventBuffer)
  /\ UNCHANGED <<enqueues, force, minuteVars, trafficMinute, storeVars, callVars, aggVars, otherVars>>

(***************************************************************************)
(* queueTrafficEvent(event) and queueTrafficEvents(events).  A bulk call   *)
(* passes n events of one timestamp, as TrafficService.recordHits does.    *)
(***************************************************************************)
\* the call is made: the events are pushed, the date INCRBY is issued
QueuePush(p, kind, ts, n) ==
  /\ enqueues[p].pc = "idle"
  /\ eventBuffer' = eventBuffer \o EventsOf(p, ts, n)
  /\ enqueues' = [enqueues EXCEPT ![p] = [pc |-> "increment", kind |-> kind, ts |-> ts, n |-> n]]
  /\ UNCHANGED <<flushTimer, isProcessingBuffer, inflight, batchQueue, force,
                 minuteVars, trafficMinute, storeVars, callVars, aggVars, otherVars>>

\* the date whose counter the call increments: queueTrafficEvent uses today's
\* date, queueTrafficEvents the date of the events
IncrementedDate(p) ==
  IF enqueues[p].kind = "single" THEN Today ELSE getLocalDateString(enqueues[p].ts)

\* redisCounter.increment(date, count): INCRBY and EXPIRE
IncrementDate(p) ==
  /\ enqueues[p].pc = "increment"
  /\ dateCounter' = [dateCounter EXCEPT ![IncrementedDate(p)] = Incrby(@, enqueues[p].n)]
  /\ dateTtl' = [dateTtl EXCEPT ![IncrementedDate(p)] = TRUE]
  /\ enqueues' = [enqueues EXCEPT ![p].pc = "minute_incrby"]
  /\ UNCHANGED <<bufferVars, force, minuteVars, trafficMinute, callVars, aggVars>>

QueueIncrement(p) == IncrementDate(p) /\ UNCHANGED otherVars

\* redisCounter.incrementMinute(minuteKey, count): INCRBY
QueueMinuteIncrby(p) ==
  /\ enqueues[p].pc = "minute_incrby"
  /\ minuteCounter' = [minuteCounter EXCEPT ![enqueues[p].ts] = Incrby(@, enqueues[p].n)]
  /\ enqueues' = [enqueues EXCEPT ![p].pc = "minute_sadd"]
  /\ UNCHANGED <<bufferVars, force, pendingMinutes, trafficMinute, storeVars, callVars, aggVars, otherVars>>

\* redisCounter.incrementMinute: SADD pending_minutes and EXPIRE; then
\* getWeekTotal and publishTrafficUpdate, which change nothing kept here
MinuteSadd(p) ==
  /\ enqueues[p].pc = "minute_sadd"
  /\ pendingMinutes' = pendingMinutes \cup {enqueues[p].ts}
  /\ enqueues' = [enqueues EXCEPT ![p].pc = "schedule"]
  /\ UNCHANGED <<bufferVars, force, minuteCounter, trafficMinute, storeVars, callVars, aggVars>>

QueueMinuteSadd(p) == MinuteSadd(p) /\ UNCHANGED otherVars

\* "Schedule flush": flush at once when the buffer holds BATCH_SIZE events,
\* otherwise arm the timer unless one is armed or a flush is in flight
QueueSchedule(p) ==
  /\ enqueues[p].pc = "schedule"
  /\ IF Len(eventBuffer) >= BATCH_SIZE
     THEN /\ FlushStart(ByEnqueue(p), eventBuffer)
          /\ enqueues' = [enqueues EXCEPT ![p].pc =
                            IF FlushAwaits THEN "flush_wait" ELSE "done"]
     ELSE /\ flushTimer' = (flushTimer \/ ~isProcessingBuffer)
          /\ enqueues' = [enqueues EXCEPT ![p].pc = "done"]
          /\ UNCHANGED <<eventBuffer, isProcessingBuffer, inflight, batchQueue>>
  /\ UNCHANGED <<force, minuteVars, trafficMinute, storeVars, callVars, aggVars, otherVars>>

(***************************************************************************)
(* forceFlush(): flushEventBuffer(), then syncPendingMinutes()             *)
(***************************************************************************)
\* forceFlush is called; flushEventBuffer runs to its await or early return
ForceFlushFrom(f) ==
  /\ FlushStart(ByForce, eventBuffer)
  /\ force' = [f EXCEPT
       !.pc = IF FlushAwaits THEN "flush_wait" ELSE "sync_members",
       \* history: the calls that had returned, and whether any was under way
       !.accepted = {p \in Enqueuers : enqueues[p].pc = "done"},
       !.clean = \A p \in Enqueuers : enqueues[p].pc \in {"idle", "done"}]

ForceFlushCall ==
  /\ force.pc = "idle"
  /\ ForceFlushFrom(force)
  /\ UNCHANGED <<enqueues, minuteVars, trafficMinute, storeVars, callVars, aggVars, otherVars>>

\* syncPendingMinutes: SMEMBERS pending_minutes; return when it is empty
SyncMembers ==
  /\ force.pc = "sync_members"
  /\ force' = [force EXCEPT !.left = pendingMinutes,
                            !.pc = IF pendingMinutes = {} THEN "done" ELSE "sync_get"]
  /\ UNCHANGED <<enqueues, minuteVars, trafficMinute, bufferVars, storeVars, callVars, aggVars, otherVars>>

\* the for loop takes a minute key: redisCounter.getMinute(minuteKey)
SyncGetMinute(k) ==
  /\ force.pc = "sync_get"
  /\ k \in force.left
  /\ force' = [force EXCEPT !.key = k, !.left = force.left \ {k},
                            !.redisCount = ParseOrZero(minuteCounter[k]),
                            !.pc = IF ParseOrZero(minuteCounter[k]) > 0
                                   THEN "sync_upsert" ELSE "sync_srem"]
  /\ UNCHANGED <<enqueues, minuteVars, trafficMinute, bufferVars, storeVars, callVars, aggVars, otherVars>>

SyncNext(left) == IF left = {} THEN "done" ELSE "sync_get"

\* insert ... onConflictDoUpdate set count = redisCount succeeds
SyncUpsertOk ==
  /\ force.pc = "sync_upsert"
  /\ trafficMinute' = [trafficMinute EXCEPT ![force.key] = force.redisCount]
  /\ force' = [force EXCEPT !.pc = "sync_srem"]
  /\ UNCHANGED <<enqueues, minuteVars, bufferVars, storeVars, callVars, aggVars, otherVars>>

\* the upsert throws: logged, the key stays pending, next key
SyncUpsertFail ==
  /\ force.pc = "sync_upsert"
  /\ force' = [force EXCEPT !.pc = SyncNext(force.left)]
  /\ UNCHANGED <<enqueues, minuteVars, trafficMinute, bufferVars, storeVars, callVars, aggVars, otherVars>>

\* redisCounter.removePendingMinute(minuteKey)
SyncSrem ==
  /\ force.pc = "sync_srem"
  /\ pendingMinutes' = pendingMinutes \ {force.key}
  /\ force' = [force EXCEPT !.pc = SyncNext(force.left)]
  /\ UNCHANGED <<enqueues, minuteCounter, trafficMinute, bufferVars, storeVars, callVars, aggVars, otherVars>>

(***************************************************************************)
(* Calendar: the fields Date gives for a timestamp                         *)
(***************************************************************************)
\* the day number of new Date(y, m - 1, d), for a month m in 1..12
DaysFromCivil(y, m, d) ==
  LET yy == IF m <= 2 THEN y - 1 ELSE y
      era == yy \div 400
      yoe == yy - era * 400
      mp == IF m > 2 THEN m - 3 ELSE m + 9
      doy == (153 * mp + 2) \div 5 + d - 1
      doe == yoe * 365 + yoe \div 4 - yoe \div 100 + doy
  IN  era * 146097 + doe - 719468

\* the civil date of a day number
CivilFromDays(z) ==
  LET zz == z + 719468
      era == zz \div 146097
      doe == zz - era * 146097
      yoe == (doe - doe \div 1460 + doe \div 36524 - doe \div 146096) \div 365
      doy == doe - (365 * yoe + yoe \div 4 - yoe \div 100)
      mp == (5 * doy + 2) \div 153
      m == IF mp < 10 THEN mp + 3 ELSE mp - 9
  IN  [year |-> yoe + era * 400 + (IF m <= 2 THEN 1 ELSE 0),
       month |-> m,
       date |-> doy - (153 * mp + 2) \div 5 + 1]

getFullYear(t) == CivilFromDays(t \div 1440).year
\* 0 is January
getMonth(t) == CivilFromDays(t \div 1440).month - 1
\* 0 is Sunday; 1970-01-01 was a Thursday
getDay(t) == (t \div 1440 + 4) % 7

\* setMinutes(0, 0, 0)
HourStart(t) == t - (t % 60)
\* setHours(0, 0, 0, 0)
DayStart(t) == t - (t % 1440)
\* weekStart.setDate(date.getDate() - dayOfWeek)
WeekStart(t) == DayStart(t) - getDay(t) * 1440
\* new Date(date.getFullYear(), date.getMonth(), 1, 0, 0, 0, 0)
MonthStart(t) == DaysFromCivil(getFullYear(t), getMonth(t) + 1, 1) * 1440
\* new Date(date.getFullYear(), date.getMonth() + 1, 0, 23, 59, 59, 999): the
\* last minute before the first of the next month
MonthEnd(t) ==
  (IF getMonth(t) = 11 THEN DaysFromCivil(getFullYear(t) + 1, 1, 1)
   ELSE DaysFromCivil(getFullYear(t), getMonth(t) + 2, 1)) * 1440 - 1

\* getWeekNumber(date): the ISO week of the Thursday of the Monday-to-Sunday
\* week that holds the date
getWeekNumber(t) ==
  LET d == t \div 1440
      dayNum == IF getDay(t) = 0 THEN 7 ELSE getDay(t)
      thursday == d + 4 - dayNum
      yearStart == DaysFromCivil(CivilFromDays(thursday).year, 1, 1)
  IN  (thursday - yearStart + 1 + 6) \div 7

\* the columns that identify a traffic_weekly row
WeekKey(weekStart) == <<getFullYear(weekStart), getWeekNumber(weekStart)>>

(***************************************************************************)
(* Aggregation engine (TrafficService).  An aggregation run is cut at its  *)
(* database commands; runs holds, for every run in flight, the command it  *)
(* awaits.  The SELECT a run opens with is taken together with the timer   *)
(* callback that starts the run: the callback changes nothing else.        *)
(* The steps of queueTrafficEvents inside recordHits, and of the worker or *)
(* syncPendingMinutes writing one minute row, are taken as one step each   *)
(* here; the event buffer they pass through is followed in SpecQueue.      *)
(***************************************************************************)
\* the instants at which the model looks at the wall clock: Saturday
\* 2025-01-04 23:05, a minute later, and an hour later, which is Sunday 00:05
Clock == <<DayStart(NowMinute) + 1385, DayStart(NowMinute) + 1386,
           DayStart(NowMinute) + 1445>>
now == Clock[clock]
ClockTimes == {Clock[i] : i \in DOMAIN Clock}

\* the targetDate of POST /hit?date=2024-12-28: a Saturday of another week,
\* month and year
PastDate == DaysFromCivil(2024, 12, 28) * 1440

\* the counts passed to recordHits: recordHit passes 1, POST /hit?count=2 passes 2
HitCounts == {1, 2}

\* recordHits: new Date(baseDate year, month, date, now hours, now minutes, 0, 0)
MinuteTimestamp(baseDate, t) == DayStart(baseDate) + (t % 1440)

\* the rows the tables can hold
AggMinutes == {MinuteTimestamp(b, t) : b \in {PastDate} \cup ClockTimes, t \in ClockTimes}
HourKeys == {HourStart(k) : k \in AggMinutes} \cup {HourStart(t - 60) : t \in ClockTimes}
DayKeys == {DayStart(h) : h \in HourKeys} \cup {DayStart(t - 1440) : t \in ClockTimes}
WeekKeys == {WeekKey(WeekStart(d)) : d \in DayKeys}
MonthKeys == {MonthStart(d) : d \in DayKeys}
AggDates == {getLocalDateString(k) : k \in AggMinutes}

\* COALESCE(SUM(count), 0) over the rows with lo <= timestamp <= hi
RECURSIVE SumRows(_, _)
SumRows(table, keys) ==
  IF keys = {} THEN 0
  ELSE LET k == CHOOSE k \in keys : TRUE
       IN  table[k] + SumRows(table, keys \ {k})

SumCounts(table, lo, hi) ==
  SumRows(table, {k \in DOMAIN table : lo <= k /\ k <= hi})

\* insert ... onConflictDoUpdate set count = total
UpsertAdds(count, total) == count + total
Upsert(count, total) == total

\* the database command a run awaits
Run(op, at, total) == [op |-> op, at |-> at, total |-> total]
One(r) == SetToBag({r})
Awaits(r, op) == BagIn(r, runs) /\ r.op = op

\* checkAndAggregateToHour up to the answer of its SELECT over the minute rows
MinuteSum(ts) == SumCounts(trafficMinute, HourStart(ts), HourStart(ts) + 59)
AfterMinuteSum(ts) ==
  IF MinuteSum(ts) > 0 THEN One(Run("hour_upsert", HourStart(ts), MinuteSum(ts)))
  ELSE EmptyBag

StartHour(ts) ==
  /\ started < MaxAggregations
  /\ started' = started + 1
  /\ runs' = runs (+) AfterMinuteSum(ts)
  /\ hourReads' = [hourReads EXCEPT ![HourStart(ts)] = Append(@, MinuteSum(ts))]

\* checkAndAggregateToDay up to the answer of its SELECT over the hour rows
AfterHourSum(ts) ==
  LET total == SumCounts(trafficHourly, DayStart(ts), DayStart(ts) + 1439)
  IN  IF total > 0 THEN One(Run("day_upsert", DayStart(ts), total)) ELSE EmptyBag

\* checkAndAggregateToWeek up to the answer of its SELECT over the day rows
AfterWeekSum(ts) ==
  LET total == SumCounts(trafficDaily, WeekStart(ts), WeekStart(ts) + 6 * 1440 + 1439)
  IN  IF total > 0 THEN One(Run("week_existing", WeekStart(ts), total)) ELSE EmptyBag

\* checkAndAggregateToMonth up to the answer of its SELECT over the day rows
AfterMonthSum(ts) ==
  LET total == SumCounts(trafficDaily, MonthStart(ts), MonthEnd(ts))
  IN  IF total > 0 THEN One(Run("month_upsert", MonthStart(ts), total)) ELSE EmptyBag

\* the wall clock moves on
Tick ==
  /\ clock < Len(Clock)
  /\ clock' = clock + 1
  /\ UNCHANGED <<aggregationTimer, tableVars, runs, hourReads, hits, started,
                 storeVars, callVars, queueVars, otherVars>>

\* recordHits(count, targetDate): queueTrafficEvents counts the hits in the
\* fast store, then triggerAggregation replaces the debounce timer
recordHits(count, baseDate) ==
  LET minuteTimestamp == MinuteTimestamp(baseDate, now)
      date == getLocalDateString(minuteTimestamp)
  IN  /\ hits < MaxHits
      /\ hits' = hits + 1
      /\ dateCounter' = [dateCounter EXCEPT ![date] = Incrby(@, count)]
      /\ dateTtl' = [dateTtl EXCEPT ![date] = TRUE]
      /\ minuteCounter' = [minuteCounter EXCEPT ![minuteTimestamp] = Incrby(@, count)]
      /\ pendingMinutes' = pendingMinutes \cup {minuteTimestamp}
      /\ aggregationTimer' = {minuteTimestamp}
      /\ UNCHANGED <<clock, tableVars, runs, hourReads, started,
                     callVars, trafficMinute, bufferVars, enqueues, force, otherVars>>

\* the worker (or syncPendingMinutes) writes the row of a pending minute:
\* count = the fast count, then SREM
MinutePersisted(k) ==
  /\ k \in pendingMinutes
  /\ trafficMinute' = [trafficMinute EXCEPT ![k] =
       IF ParseOrZero(minuteCounter[k]) > 0 THEN ParseOrZero(minuteCounter[k]) ELSE @]
  /\ pendingMinutes' = pendingMinutes \ {k}
  /\ UNCHANGED <<minuteCounter, storeVars, callVars, bufferVars, enqueues, force, aggVars, otherVars>>

\* the debounce timeout fires: checkAndAggregateToHour(minuteTimestamp)
AggregationTimerFires ==
  /\ \E ts \in aggregationTimer : StartHour(ts)
  /\ aggregationTimer' = {}
  /\ UNCHANGED <<clock, tableVars, hits, storeVars, callVars, queueVars, otherVars>>

\* hourlyAggTimer: aggregateToHour covers the hour before the current one
aggregateToHour ==
  /\ StartHour(HourStart(now - 60))
  /\ UNCHANGED <<clock, aggregationTimer, tableVars, hits, storeVars, callVars, queueVars, otherVars>>

\* dailyAggTimer: aggregateToDay covers yesterday
aggregateToDay ==
  /\ started < MaxAggregations
  /\ started' = started + 1
  /\ runs' = runs (+) AfterHourSum(DayStart(now - 1440))
  /\ UNCHANGED <<clock, aggregationTimer, tableVars, hourReads, hits,
                 storeVars, callVars, queueVars, otherVars>>

\* weeklyAggTimer: aggregateToWeek covers the week of today
aggregateToWeek ==
  /\ started < MaxAggregations
  /\ started' = started + 1
  /\ runs' = runs (+) AfterWeekSum(DayStart(now))
  /\ UNCHANGED <<clock, aggregationTimer, tableVars, hourReads, hits,
                 storeVars, callVars, queueVars, otherVars>>

\* monthlyAggTimer: aggregateToMonth covers the month of today
aggregateToMonth ==
  /\ started < MaxAggregations
  /\ started' = started + 1
  /\ runs' = runs (+) AfterMonthSum(DayStart(now))
  /\ UNCHANGED <<clock, aggregationTimer, tableVars, hourReads, hits,
                 storeVars, callVars, queueVars, otherVars>>

RunUnchanged == UNCHANGED <<clock, aggregationTimer, hourReads, hits, started,
                            storeVars, callVars, queueVars, otherVars>>

\* the upsert of traffic_hourly answers; checkAndAggregateToDay(hourStart) is
\* called and not awaited
HourUpsert(r) ==
  /\ Awaits(r, "hour_upsert")
  /\ trafficHourly' = [trafficHourly EXCEPT ![r.at] = Upsert(@, r.total)]
  /\ runs' = (runs (-) One(r)) (+) One(Run("day_sum", r.at, 0))
  /\ UNCHANGED <<trafficDaily, trafficWeekly, trafficMonthly>>
  /\ RunUnchanged

\* the SELECT over the hour rows of the day answers
DaySelect(r) ==
  /\ Awaits(r, "day_sum")
  /\ runs' = (runs (-) One(r)) (+) AfterHourSum(r.at)
  /\ UNCHANGED tableVars
  /\ RunUnchanged

\* the upsert of traffic_daily answers; checkAndAggregateToWeek(dayStart) and
\* checkAndAggregateToMonth(dayStart) are called and not awaited
DayUpsert(r) ==
  /\ Awaits(r, "day_upsert")
  /\ trafficDaily' = [trafficDaily EXCEPT ![r.at] = Upsert(@, r.total)]
  /\ runs' = (runs (-) One(r)) (+) One(Run("week_sum", r.at, 0))
                               (+) One(Run("month_sum", r.at, 0))
  /\ UNCHANGED <<trafficHourly, trafficWeekly, trafficMonthly>>
  /\ RunUnchanged

\* the SELECT over the day rows of the week answers
WeekSelect(r) ==
  /\ Awaits(r, "week_sum")
  /\ runs' = (runs (-) One(r)) (+) AfterWeekSum(r.at)
  /\ UNCHANGED tableVars
  /\ RunUnchanged

\* the SELECT of the week row answers: existing.length > 0 chooses the UPDATE
WeekExisting(r) ==
  /\ Awaits(r, "week_existing")
  /\ runs' = (runs (-) One(r)) (+)
       One(Run(IF trafficWeekly[WeekKey(r.at)] > 0 THEN "week_update" ELSE "week_insert",
               r.at, r.total))
  /\ UNCHANGED tableVars
  /\ RunUnchanged

\* UPDATE traffic_weekly SET count = total WHERE year, weekNumber
WeekUpdate(r) ==
  /\ Awaits(r, "week_update")
  /\ trafficWeekly' = [trafficWeekly EXCEPT ![WeekKey(r.at)] =
                         IF @ > 0 THEN r.total ELSE @]
  /\ runs' = runs (-) One(r)
  /\ UNCHANGED <<trafficHourly, trafficDaily, trafficMonthly>>
  /\ RunUnchanged

\* INSERT INTO traffic_weekly; a row of that year and week makes it throw
\* (traffic_weekly_year_week_unique), which the run logs
WeekInsert(r) ==
  /\ Awaits(r, "week_insert")
  /\ trafficWeekly' = [trafficWeekly EXCEPT ![WeekKey(r.at)] =
                         IF @ = 0 THEN r.total ELSE @]
  /\ runs' = runs (-) One(r)
  /\ UNCHANGED <<trafficHourly, trafficDaily, trafficMonthly>>
  /\ RunUnchanged

\* the SELECT over the day rows of the month answers
MonthSelect(r) ==
  /\ Awaits(r, "month_sum")
  /\ runs' = (runs (-) One(r)) (+) AfterMonthSum(r.at)
  /\ UNCHANGED tableVars
  /\ RunUnchanged

\* the upsert of traffic_monthly answers
MonthUpsert(r) ==
  /\ Awaits(r, "month_upsert")
  /\ trafficMonthly' = [trafficMonthly EXCEPT ![r.at] = Upsert(@, r.total)]
  /\ runs' = runs (-) One(r)
  /\ UNCHANGED <<trafficHourly, trafficDaily, trafficWeekly>>
  /\ RunUnchanged

\* the parts of the service that a specification leaves out stay as they are
IdleStartup == [pc |-> "idle", i |-> 0, dbCount |-> 0]
\* the clients that may connect
Clients == 1..MaxClients
\* lastDataSent of a client that was sent nothing yet (undefined)
NoMessage == [data |-> -1, currentDay |-> -1, timestamp |-> -1, source |-> "none"]
IdleCount ==
  [hits |-> 0, polls |-> 0, pings |-> 0, requests |-> 0, failures |-> 0, throws |-> 0]

\* the WebSocketManager after construction: setupRealtimeSubscription waits
\* for the Redis client, no client is connected, nothing was broadcast
WsIdle ==
  /\ wsNow = minBroadcastInterval
  /\ todayTotal = 0
  /\ subscription = "waiting"
  /\ subscriptionReady = FALSE
  /\ wait = [ready |-> TRUE, error |-> TRUE, timeout |-> TRUE, effects |-> 0,
             by |-> "none"]
  /\ messageQueue = <<>>
  /\ broadcastThrottleTimer = {}
  /\ lastBroadcastTime = 0
  /\ clients = <<>>
  /\ socket = [c \in Clients |-> "none"]
  /\ isAlive = [c \in Clients |-> FALSE]
  /\ pinged = [c \in Clients |-> FALSE]
  /\ lastDataSent = [c \in Clients |-> NoMessage]
  /\ sent = [c \in Clients |-> <<>>]
  /\ fetches = EmptyBag
  /\ broadcastStarts = <<>>
  /\ wsCount = IdleCount

\* no request was made yet
NoRequest == [date |-> <<>>, status |-> 0]
HitIdle ==
  /\ http = [p \in 1..MaxEnqueues |-> NoRequest]
  /\ unhandled = {}

\* no getTrafficForDate call is under way
IdleRead == [pc |-> "idle", date |-> 0, result |-> 0]

\* the in-memory service after construction
MemIdle ==
  /\ pendingByMinute = <<>>
  /\ flushes = EmptyBag
  /\ accepted = [k \in MinuteKeys |-> 0]

\* the worker has taken no job
IdleWorker == [state |-> "idle", pc |-> "none", minutes |-> <<>>, left |-> <<>>,
               attemptsMade |-> 0, delay |-> 0, redisCount |-> 0, failedWrites |-> {}]

\* useMonotonicCounter(0) after the first render: nothing is animated
IdleCounter == [external |-> 0, maxValueRef |-> 0, displayValue |-> 0, animation |-> <<>>]

\* the page after it is mounted: the states and the refs are 0
IdleDashboard == [totalTraffic |-> 0, todayTraffic |-> 0, maxTotalRef |-> 0,
                  maxTodayRef |-> 0, total |-> IdleCounter, today |-> IdleCounter]

\* the sync route has not been called
IdleResync == [pc |-> "idle", keys |-> {}, i |-> 0, count |-> 0]

\* no signal has come: the process runs
IdleShutdown == [pc |-> "running", signal |-> "none", timer |-> FALSE, code |-> -1]

\* a call that has not incremented: no total, nothing sent
NotPublished == [todayTotal |-> 0, before |-> 0, after |-> 0, sent |-> FALSE]

AfterWsIdle ==
  /\ HitIdle
  /\ read = IdleRead
  /\ aggFailed = 0
  /\ MemIdle
  /\ worker = IdleWorker
  /\ shutdown = IdleShutdown
  /\ dashboard = IdleDashboard
  /\ resync = IdleResync
  /\ published = [p \in Enqueuers |-> NotPublished]

OtherIdle ==
  /\ startup = IdleStartup
  /\ WsIdle
  /\ AfterWsIdle

\* the service after construction, with empty tables
AggIdle ==
  /\ clock = 1
  /\ aggregationTimer = {}
  /\ trafficHourly = [h \in HourKeys |-> 0]
  /\ trafficDaily = [d \in DayKeys |-> 0]
  /\ trafficWeekly = [w \in WeekKeys |-> 0]
  /\ trafficMonthly = [m \in MonthKeys |-> 0]
  /\ runs = EmptyBag
  /\ hourReads = [h \in HourKeys |-> <<>>]
  /\ hits = 0
  /\ started = 0
  /\ OtherIdle

(***************************************************************************)
(* Specification of the event buffer                                       *)
(***************************************************************************)
CallsIdle ==
  /\ initialCounter = dateCounter
  /\ calls = [p \in Procs |-> IdleCall]

InitQueue ==
  /\ dateCounter = [d \in Dates |-> Nil]
  /\ dateTtl = [d \in Dates |-> FALSE]
  /\ CallsIdle
  /\ QueueIdle
  /\ AggIdle

\* enqueue calls are taken in slot order (the slots are interchangeable)
NextEnqueuer(p) == \A q \in Enqueuers : q < p => enqueues[q].pc # "idle"

\* a queueTrafficEvent or queueTrafficEvents call is made
QueueCall ==
  \/ \E p \in Enqueuers, ts \in MinuteKeys :
       NextEnqueuer(p) /\ QueuePush(p, "single", ts, 1)
  \/ \E p \in Enqueuers, ts \in MinuteKeys, n \in 1..MaxBulk :
       NextEnqueuer(p) /\ QueuePush(p, "bulk", ts, n)

\* a call or a flush continues after an await, or the flush timer fires
QueueStep ==
  \/ \E p \in Enqueuers : QueueIncrement(p)
  \/ \E p \in Enqueuers : QueueMinuteIncrby(p)
  \/ \E p \in Enqueuers : QueueMinuteSadd(p)
  \/ \E p \in Enqueuers : QueueSchedule(p)
  \/ TimerFires
  \/ \E f \in inflight : FlushAddOk(f)
  \/ \E f \in inflight : FlushAddFail(f)

\* forceFlush and its syncPendingMinutes
ForceStep ==
  \/ ForceFlushCall
  \/ SyncMembers
  \/ \E k \in MinuteKeys : SyncGetMinute(k)
  \/ SyncUpsertOk
  \/ SyncUpsertFail
  \/ SyncSrem

NextQueue == QueueCall \/ QueueStep

NextForce == QueueCall \/ QueueStep \/ ForceStep

SpecQueue == InitQueue /\ [][NextQueue]_vars
SpecForce == InitQueue /\ [][NextForce]_vars

(***************************************************************************)
(* Specifications of the aggregation engine                                *)
(***************************************************************************)
InitAgg ==
  /\ dateCounter = [d \in AggDates |-> Nil]
  /\ dateTtl = [d \in AggDates |-> FALSE]
  /\ CallsIdle
  /\ minuteCounter = [k \in AggMinutes |-> Nil]
  /\ pendingMinutes = {}
  /\ trafficMinute = [k \in AggMinutes |-> 0]
  /\ BufferIdle
  /\ AggIdle

\* hits arrive, minute rows are written, time passes
AggInput ==
  \/ Tick
  \/ \E count \in HitCounts, baseDate \in {now, PastDate} : recordHits(count, baseDate)
  \/ \E k \in AggMinutes : MinutePersisted(k)

\* a timer starts an aggregation
AggStart ==
  \/ AggregationTimerFires
  \/ aggregateToHour
  \/ aggregateToDay
  \/ aggregateToWeek
  \/ aggregateToMonth

\* the database answers a command of a run
AggStep ==
  \/ \E r \in BagToSet(runs) : HourUpsert(r)
  \/ \E r \in BagToSet(runs) : DaySelect(r)
  \/ \E r \in BagToSet(runs) : DayUpsert(r)
  \/ \E r \in BagToSet(runs) : WeekSelect(r)
  \/ \E r \in BagToSet(runs) : WeekExisting(r)
  \/ \E r \in BagToSet(runs) : WeekUpdate(r)
  \/ \E r \in BagToSet(runs) : WeekInsert(r)
  \/ \E r \in BagToSet(runs) : MonthSelect(r)
  \/ \E r \in BagToSet(runs) : MonthUpsert(r)

NoRun == runs = EmptyBag

\* the try block of each checkAndAggregateTo... encloses all its commands
CaughtWritesOnly(op) == op \notin {"day_sum", "week_sum", "month_sum", "week_existing"}
Caught(op) == TRUE

\* the database answers a command of a run with an error: the catch of the
\* step logs it and the run ends; an error outside a try would reject the
\* run, which nobody awaits with a handler
RunFails(r) ==
  /\ BagIn(r, runs)
  /\ aggFailed < MaxFailures
  /\ aggFailed' = aggFailed + 1
  /\ runs' = runs (-) One(r)
  /\ unhandled' = IF Caught(r.op) THEN unhandled ELSE unhandled \cup {0}
  /\ UNCHANGED <<clock, aggregationTimer, tableVars, hourReads, hits, started,
                 storeVars, callVars, queueVars, startup, wsVars, http, read, afterFail>>

\* any interleaving of hits, minute writes and aggregation runs
NextAgg == AggInput \/ AggStart \/ AggStep

\* one aggregation at a time: nothing else happens until its runs are over
NextAggSeq ==
  \/ NoRun /\ AggInput
  \/ NoRun /\ AggStart
  \/ AggStep

SpecAgg == InitAgg /\ [][NextAgg]_vars
SpecAggSeq == InitAgg /\ [][NextAggSeq]_vars

\* hits of today arrive and are written, at one instant of the clock; one
\* aggregation runs at a time, and any of its commands may fail
NextAggFail ==
  \/ NoRun /\ recordHits(1, now)
  \/ NoRun /\ \E k \in AggMinutes : MinutePersisted(k)
  \/ NoRun /\ AggStart
  \/ AggStep
  \/ \E r \in BagToSet(runs) : RunFails(r)

SpecAggFail == InitAgg /\ [][NextAggFail]_vars

(***************************************************************************)
(* Startup reconciliation: TrafficService.initializeRedisCounters, which   *)
(* the constructor calls and does not await                                *)
(***************************************************************************)
\* the days whose minute rows the model fills: Friday 2025-01-03, Saturday
\* 2025-01-04 and Sunday 2025-01-05
DurableDays == {DayStart(NowMinute) - 1440, DayStart(NowMinute), DayStart(NowMinute) + 1440}
StartupMinutes == {d + 1385 : d \in DurableDays}
\* the days of the current week, from its Sunday on, for a start at t
WeekDays(t) == {WeekStart(t) + i * 1440 : i \in 0..6}
\* the rolling window for a start at t: the day of t and the six before it
RollingWindow(t) == {DayStart(t) - i * 1440 : i \in 0..6}
StartupDates ==
  UNION {{getLocalDateString(d) : d \in WeekDays(t) \cup RollingWindow(t)} : t \in ClockTimes}

\* the day the loop is at: startOfWeek.setDate(startOfWeek.getDate() + i)
StartupDay == WeekStart(now) + startup.i * 1440
\* formatDate(date)
StartupDate == getLocalDateString(StartupDay)

StartupUnchanged ==
  UNCHANGED <<initialCounter, calls, queueVars, aggVars, afterStartup>>

\* the loop test, and the SELECT of COALESCE(SUM(count), 0) over the minute
\* rows of the day; after the loop the run only reads
StartupSelect ==
  /\ startup.pc = "select"
  /\ startup' =
       IF startup.i < 7 /\ ~(StartupDay > now)
       THEN [startup EXCEPT !.pc = "init_get",
               !.dbCount = SumCounts(trafficMinute, StartupDay, StartupDay + 1439)]
       ELSE [startup EXCEPT !.pc = "done"]
  /\ UNCHANGED <<dateCounter, dateTtl>>
  /\ StartupUnchanged

\* redisCounter.initializeFromDb(dateStr, dbCount): GET and the guard
StartupInitializeGet ==
  /\ startup.pc = "init_get"
  /\ startup' =
       IF NeedsInit(dateCounter[StartupDate], startup.dbCount)
       THEN [startup EXCEPT !.pc = "init_set"]
       ELSE [startup EXCEPT !.pc = "select", !.i = @ + 1]
  /\ UNCHANGED <<dateCounter, dateTtl>>
  /\ StartupUnchanged

\* SET key dbValue.toString()
StartupInitializeSet ==
  /\ startup.pc = "init_set"
  /\ dateCounter' = [dateCounter EXCEPT ![StartupDate] = NumberToString(startup.dbCount)]
  /\ dateTtl' = [dateTtl EXCEPT ![StartupDate] = FALSE]
  /\ startup' = [startup EXCEPT !.pc = "init_expire"]
  /\ StartupUnchanged

\* EXPIRE key 8d; the loop goes on
StartupInitializeExpire ==
  /\ startup.pc = "init_expire"
  /\ dateTtl' = [dateTtl EXCEPT ![StartupDate] = TRUE]
  /\ startup' = [startup EXCEPT !.pc = "select", !.i = @ + 1]
  /\ UNCHANGED dateCounter
  /\ StartupUnchanged

\* a command throws: the catch logs the error and the run is over
StartupFails ==
  /\ startup.pc \in {"select", "init_get", "init_set", "init_expire"}
  /\ startup' = [startup EXCEPT !.pc = "failed"]
  /\ UNCHANGED <<dateCounter, dateTtl>>
  /\ StartupUnchanged

\* the process starts on some instant of the clock, with minute rows of days up
\* to today in the database and any counters in Redis
InitStartup ==
  /\ clock \in DOMAIN Clock
  /\ trafficMinute \in [StartupMinutes -> 0..MaxDbValue]
  /\ \A k \in StartupMinutes : k > now => trafficMinute[k] = 0
  /\ dateCounter \in [StartupDates -> {Nil, NumberToString(1)}]
  /\ \A d \in StartupDates : d * 1440 \notin DurableDays => dateCounter[d] = Nil
  /\ dateTtl = [d \in StartupDates |-> dateCounter[d] # Nil]
  /\ CallsIdle
  /\ minuteCounter = [k \in StartupMinutes |-> Nil]
  /\ pendingMinutes = {}
  /\ BufferIdle
  /\ aggregationTimer = {}
  /\ trafficHourly = [h \in HourKeys |-> 0]
  /\ trafficDaily = [d \in DayKeys |-> 0]
  /\ trafficWeekly = [w \in WeekKeys |-> 0]
  /\ trafficMonthly = [m \in MonthKeys |-> 0]
  /\ runs = EmptyBag
  /\ hourReads = [h \in HourKeys |-> <<>>]
  /\ hits = 0
  /\ started = 0
  /\ startup = [pc |-> "select", i |-> 0, dbCount |-> 0]
  /\ WsIdle
  /\ AfterWsIdle

NextStartup ==
  \/ StartupSelect
  \/ StartupInitializeGet
  \/ StartupInitializeSet
  \/ StartupInitializeExpire
  \/ StartupFails

SpecStartup == InitStartup /\ [][NextStartup]_vars

\* the same, where a command that is answered lets the run go on; nothing
\* starts a run again after the catch
SpecStartupFair ==
  /\ InitStartup
  /\ [][NextStartup]_vars
  /\ WF_vars(StartupSelect) /\ WF_vars(StartupInitializeGet)
  /\ WF_vars(StartupInitializeSet) /\ WF_vars(StartupInitializeExpire)

(***************************************************************************)
(* Fan-out to the dashboards (websocket/index.ts, WebSocketManager).       *)
(* The pulls of fresh data (getLast7Days, getHourlyData, getTodayTraffic,  *)
(* getPercentageChange) that a broadcast or a send awaits are one fetch,   *)
(* answered in one step; time passes in units of which minBroadcastInterval *)
(* is a few, and the 1 s poll and 30 s heartbeat intervals, which are far  *)
(* longer, tick at any moment.                                             *)
(***************************************************************************)
NotWs == <<storeVars, callVars, queueVars, aggVars, startup, afterWs>>

\* the last instant of the model
MaxTime == 3 * minBroadcastInterval

\* JSON.stringify of the traffic message: two strings are equal exactly when
\* all the fields are
Message(data, currentDay, source) ==
  [data |-> data, currentDay |-> currentDay, timestamp |-> wsNow, source |-> source]

\* a pending fetch; realtime is the todayTotal of the realtimeData argument,
\* -1 when there is none
Fetch(kind, client, realtime) == [kind |-> kind, client |-> client, realtime |-> realtime]

\* the Set without a client: clients.delete(client)
RECURSIVE Delete(_, _)
Delete(seq, c) ==
  IF seq = <<>> THEN <<>>
  ELSE IF Head(seq) = c THEN Delete(Tail(seq), c)
  ELSE <<Head(seq)>> \o Delete(Tail(seq), c)
ClientSet(seq) == {seq[i] : i \in DOMAIN seq}

\* broadcastWithLiveData(realtimeData) up to its await: it returns at once
\* when no client is connected
BroadcastFetch(realtime) ==
  IF clients = <<>> THEN EmptyBag ELSE One(Fetch("broadcast", 0, realtime))

\* processBroadcastQueue on the queue q: take the latest message, empty the
\* queue, note the time, broadcast
processBroadcastQueue(q) ==
  IF q = <<>>
  THEN /\ messageQueue' = q
       /\ UNCHANGED <<lastBroadcastTime, fetches, broadcastStarts>>
  ELSE /\ messageQueue' = <<>>
       /\ lastBroadcastTime' = wsNow
       /\ fetches' = fetches (+) BroadcastFetch(q[Len(q)])
       /\ broadcastStarts' = Append(broadcastStarts, wsNow)

\* handleRealtimeMessage(data): queue it; broadcast at once when the interval
\* has passed, otherwise arm the timeout unless one is armed
ThrottleOpen(elapsed) == elapsed >= minBroadcastInterval

\* else if (!this.broadcastThrottleTimer): setTimeout(..., delay)
KeepTimer(timer, due) == timer

ArmUnlessArmed(timer, due) == IF timer = {} THEN {due} ELSE timer

\* the field after clearTimeout without an assignment: a handle that is not
\* null and never fires
Cancelled == MaxTime + minBroadcastInterval + 1
ClearTimeout(timer) == IF timer = {} THEN {} ELSE {Cancelled}

handleRealtimeMessage(data) ==
  LET timeSinceLastBroadcast == wsNow - lastBroadcastTime
  IN  IF ThrottleOpen(timeSinceLastBroadcast)
      THEN /\ processBroadcastQueue(Append(messageQueue, data))
           /\ UNCHANGED broadcastThrottleTimer
      ELSE /\ messageQueue' = Append(messageQueue, data)
           /\ broadcastThrottleTimer' =
                ArmUnlessArmed(broadcastThrottleTimer,
                               wsNow + (minBroadcastInterval - timeSinceLastBroadcast))
           /\ UNCHANGED <<lastBroadcastTime, fetches, broadcastStarts>>

\* a hit is counted and published on the realtime channel; the manager gets
\* the message when its subscription has been made
Hit ==
  /\ wsCount.hits < MaxMessages
  /\ wsCount' = [wsCount EXCEPT !.hits = @ + 1]
  /\ todayTotal' = todayTotal + 1
  /\ IF subscription = "subscribed"
     THEN handleRealtimeMessage(todayTotal + 1)
     ELSE UNCHANGED throttleVars /\ UNCHANGED fetches
  /\ UNCHANGED <<wsNow, subVars, clientVars, NotWs>>

\* time passes
WsTick ==
  /\ wsNow < MaxTime
  /\ wsNow' = wsNow + 1
  /\ UNCHANGED <<todayTotal, subVars, throttleVars, clientVars, fetches, wsCount, NotWs>>

\* the throttle timeout fires, at its due time or later
ThrottleTimerFires ==
  /\ \E due \in broadcastThrottleTimer : wsNow >= due
  /\ broadcastThrottleTimer' = {}
  /\ processBroadcastQueue(messageQueue)
  /\ UNCHANGED <<wsNow, todayTotal, subVars, clientVars, wsCount, NotWs>>

\* onReady of the wait: clearTimeout(timeout), so the timer is no longer armed
TimeoutKeptOnReady(armed) == armed

TimeoutAfterReady(armed) == FALSE

\* one handler of the wait runs: it is counted and named
Ended(w, how) == [w EXCEPT !.effects = @ + 1, !.by = how]

\* setupRealtimeSubscription: subClient emits "ready" while onReady is
\* registered: the timer is cleared, onError is removed, the wait resolves
SubClientReady ==
  /\ wait.ready
  /\ wait' = [Ended(wait, "ready") EXCEPT !.ready = FALSE, !.error = FALSE,
                                          !.timeout = TimeoutAfterReady(wait.timeout)]
  /\ subscription' = IF subscription = "waiting" THEN "subscribing" ELSE subscription
  /\ UNCHANGED <<subscriptionReady, wsNow, todayTotal, throttleVars, clientVars,
                 fetches, wsCount, NotWs>>

\* subClient emits "error" while onError is registered: the timer is cleared,
\* onReady is removed, the wait rejects and the catch clears the flag
WaitError ==
  /\ wait.error
  /\ wait' = [Ended(wait, "error") EXCEPT !.ready = FALSE, !.error = FALSE,
                                          !.timeout = FALSE]
  /\ subscription' = IF subscription = "waiting" THEN "failed" ELSE subscription
  /\ subscriptionReady' = IF subscription = "waiting" THEN FALSE ELSE subscriptionReady
  /\ UNCHANGED <<wsNow, todayTotal, throttleVars, clientVars, fetches, wsCount, NotWs>>

\* the 10 s timer fires while armed: both listeners are removed, the wait
\* rejects and the catch clears the flag
WaitTimeout ==
  /\ wait.timeout
  /\ wait' = [Ended(wait, "timeout") EXCEPT !.ready = FALSE, !.error = FALSE,
                                            !.timeout = FALSE]
  /\ subscription' = IF subscription = "waiting" THEN "failed" ELSE subscription
  /\ subscriptionReady' = IF subscription = "waiting" THEN FALSE ELSE subscriptionReady
  /\ UNCHANGED <<wsNow, todayTotal, throttleVars, clientVars, fetches, wsCount, NotWs>>

\* subClient.subscribe answers: the flag is set and the handlers are registered
SubscribeOk ==
  /\ subscription = "subscribing"
  /\ subscription' = "subscribed"
  /\ subscriptionReady' = TRUE
  /\ UNCHANGED <<wait, wsNow, todayTotal, throttleVars, clientVars, fetches, wsCount,
                 NotWs>>

\* subClient.subscribe rejects: the catch
SubscribeFails ==
  /\ subscription = "subscribing"
  /\ subscription' = "failed"
  /\ subscriptionReady' = FALSE
  /\ UNCHANGED <<wait, wsNow, todayTotal, throttleVars, clientVars, fetches, wsCount,
                 NotWs>>

\* subClient emits "error" after the subscription was made
SubscriptionError ==
  /\ subscription = "subscribed"
  /\ subscriptionReady
  /\ subscriptionReady' = FALSE
  /\ UNCHANGED <<subscription, wait, wsNow, todayTotal, throttleVars, clientVars,
                 fetches, wsCount, NotWs>>

\* a dashboard connects: it joins the set and is sent the data (sendToClient)
Connection(c) ==
  /\ socket[c] = "none"
  /\ \A b \in Clients : b < c => socket[b] # "none"
  /\ socket' = [socket EXCEPT ![c] = "open"]
  /\ isAlive' = [isAlive EXCEPT ![c] = TRUE]
  /\ clients' = Append(clients, c)
  /\ fetches' = fetches (+) One(Fetch("send", c, -1))
  /\ UNCHANGED <<pinged, lastDataSent, sent, wsNow, todayTotal, subVars,
                 throttleVars, wsCount, NotWs>>

\* the "close" or the "error" event of a client: it leaves the set
ClientGone(c) ==
  /\ socket[c] = "open"
  /\ socket' = [socket EXCEPT ![c] = "closed"]
  /\ clients' = Delete(clients, c)
  /\ pinged' = [pinged EXCEPT ![c] = FALSE]
  /\ UNCHANGED <<isAlive, lastDataSent, sent, wsNow, todayTotal, subVars,
                 throttleVars, fetches, wsCount, NotWs>>

\* a client sends {type: "getTraffic"}: sendToClient
GetTraffic(c) ==
  /\ socket[c] = "open"
  /\ wsCount.requests < MaxRequests
  /\ wsCount' = [wsCount EXCEPT !.requests = @ + 1]
  /\ fetches' = fetches (+) One(Fetch("send", c, -1))
  /\ UNCHANGED <<wsNow, todayTotal, subVars, throttleVars, clientVars, NotWs>>

\* client.send(message): an open socket gets the message
Deliver(to, message) ==
  [c \in Clients |-> IF c \in to /\ socket[c] = "open"
                     THEN Append(sent[c], message) ELSE sent[c]]

\* sendToClient after its await: the message goes out and is remembered
SendToClientFetched(f) ==
  /\ f.kind = "send"
  /\ fetches' = fetches (-) One(f)
  /\ LET message == Message(todayTotal, todayTotal, "initial")
     IN  /\ sent' = Deliver({f.client}, message)
         /\ lastDataSent' = [lastDataSent EXCEPT ![f.client] = message]
  /\ UNCHANGED <<clients, socket, isAlive, pinged, wsNow, todayTotal, subVars,
                 throttleVars, wsCount, NotWs>>

\* the clients the loop of broadcastWithLiveData reaches: all of them, or
\* those before the one whose send throws
Reached(failAt) ==
  {clients[i] : i \in {j \in DOMAIN clients : failAt = 0 \/ j < failAt}}

\* the loop sends to an open client unless the message is the last one sent
Differs(last, message) == last # message

Receivers(message, failAt) ==
  {c \in Reached(failAt) : socket[c] = "open" /\ Differs(lastDataSent[c], message)}

\* broadcastWithLiveData after its await: build the message and send it to
\* every client in turn; failAt is the position of the client whose send
\* throws (0: none), which ends the loop in the catch
BroadcastFetched(f, failAt) ==
  /\ f.kind = "broadcast"
  /\ fetches' = fetches (-) One(f)
  /\ LET currentDay == IF f.realtime >= 0 THEN f.realtime ELSE todayTotal
         source == IF f.realtime >= 0 THEN "realtime" ELSE "poll"
         message == Message(todayTotal, currentDay, source)
         to == Receivers(message, failAt)
     IN  /\ failAt # 0 =>
              /\ failAt \in DOMAIN clients
              /\ socket[clients[failAt]] = "open"
              /\ Differs(lastDataSent[clients[failAt]], message)
              /\ wsCount.throws < MaxFailures
         /\ wsCount' = IF failAt = 0 THEN wsCount
                       ELSE [wsCount EXCEPT !.throws = @ + 1]
         /\ sent' = Deliver(to, message)
         /\ lastDataSent' = [c \in Clients |-> IF c \in to THEN message
                                                ELSE lastDataSent[c]]
  /\ UNCHANGED <<clients, socket, isAlive, pinged, wsNow, todayTotal, subVars,
                 throttleVars, NotWs>>

\* a pull of fresh data rejects: the catch logs it and nothing is sent
FetchFails(f) ==
  /\ wsCount.failures < MaxFailures
  /\ wsCount' = [wsCount EXCEPT !.failures = @ + 1]
  /\ fetches' = fetches (-) One(f)
  /\ UNCHANGED <<wsNow, todayTotal, subVars, throttleVars, clientVars, NotWs>>

\* startFallbackPolling, one tick of the interval
PollAlways(ready) == TRUE
PollWanted(ready) == ~ready

PollTick ==
  /\ wsCount.polls < MaxPolls
  /\ wsCount' = [wsCount EXCEPT !.polls = @ + 1]
  /\ fetches' = IF Len(clients) > 0 /\ PollWanted(subscriptionReady)
                THEN fetches (+) BroadcastFetch(-1)
                ELSE fetches
  /\ UNCHANGED <<wsNow, todayTotal, subVars, throttleVars, clientVars, NotWs>>

\* startPingPong, one tick of the interval: a client that has not answered
\* since the last tick is terminated and removed, the others are marked and
\* pinged
KeepAlive(alive) == TRUE
MarkedDead(alive) == FALSE

PingTick ==
  /\ wsCount.pings < MaxPings
  /\ wsCount' = [wsCount EXCEPT !.pings = @ + 1]
  /\ LET dead == {c \in ClientSet(clients) : ~isAlive[c]}
         live == ClientSet(clients) \ dead
     IN  /\ socket' = [c \in Clients |-> IF c \in dead THEN "terminated" ELSE socket[c]]
         /\ clients' = SelectSeq(clients, LAMBDA c : c \in live)
         /\ isAlive' = [c \in Clients |-> IF c \in live THEN MarkedDead(isAlive[c])
                                          ELSE isAlive[c]]
         /\ pinged' = [c \in Clients |-> IF c \in live THEN socket[c] = "open"
                                         ELSE IF c \in dead THEN FALSE ELSE pinged[c]]
  /\ UNCHANGED <<lastDataSent, sent, wsNow, todayTotal, subVars, throttleVars,
                 fetches, NotWs>>

\* a pinged client answers: the "pong" handler
Pong(c) ==
  /\ pinged[c]
  /\ socket[c] = "open"
  /\ pinged' = [pinged EXCEPT ![c] = FALSE]
  /\ isAlive' = [isAlive EXCEPT ![c] = TRUE]
  /\ UNCHANGED <<clients, socket, lastDataSent, sent, wsNow, todayTotal, subVars,
                 throttleVars, fetches, wsCount, NotWs>>

(***************************************************************************)
(* Specifications of the fan-out                                           *)
(***************************************************************************)
InitWs ==
  /\ dateCounter = [d \in Dates |-> Nil]
  /\ dateTtl = [d \in Dates |-> FALSE]
  /\ CallsIdle
  /\ QueueIdle
  /\ AggIdle

\* the subscription is set up
NextSubscription ==
  \/ SubClientReady
  \/ WaitError
  \/ WaitTimeout
  \/ SubscribeOk
  \/ SubscribeFails
  \/ SubscriptionError

\* dashboards come, ask and go
NextClients ==
  \/ \E c \in Clients : Connection(c)
  \/ \E c \in Clients : ClientGone(c)
  \/ \E c \in Clients : GetTraffic(c)

\* pending fetches are answered
NextFetches ==
  \/ \E f \in BagToSet(fetches) : SendToClientFetched(f)
  \/ \E f \in BagToSet(fetches), failAt \in 0..MaxClients : BroadcastFetched(f, failAt)
  \/ \E f \in BagToSet(fetches) : FetchFails(f)

\* realtime messages reach connected dashboards through the throttle
NextRealtime ==
  \/ Hit
  \/ WsTick
  \/ ThrottleTimerFires
  \/ SubClientReady
  \/ SubscribeOk
  \/ \E c \in Clients : Connection(c)
  \/ \E f \in BagToSet(fetches) : SendToClientFetched(f)
  \/ \E f \in BagToSet(fetches) : BroadcastFetched(f, 0)

SpecRealtime == InitWs /\ [][NextRealtime]_vars

\* dashboards are served by sendToClient and by the fallback poll
NextSend ==
  \/ NextClients
  \/ NextFetches
  \/ PollTick

SpecSend == InitWs /\ [][NextSend]_vars

\* the fallback poll next to the subscription
NextPoll ==
  \/ NextSubscription
  \/ PollTick
  \/ \E c \in Clients : Connection(c)
  \/ \E c \in Clients : ClientGone(c)
  \/ \E f \in BagToSet(fetches) : SendToClientFetched(f)
  \/ \E f \in BagToSet(fetches) : BroadcastFetched(f, 0)

SpecPoll == InitWs /\ [][NextPoll]_vars

\* the same, with the timer of the wait firing when its 10 s are over
SpecSubscribe == InitWs /\ [][NextPoll]_vars /\ WF_vars(WaitTimeout)

\* the heartbeat
NextHeartbeat ==
  \/ PingTick
  \/ \E c \in Clients : Pong(c)
  \/ \E c \in Clients : Connection(c)
  \/ \E c \in Clients : ClientGone(c)
  \/ \E f \in BagToSet(fetches) : SendToClientFetched(f)

SpecHeartbeat == InitWs /\ [][NextHeartbeat]_vars

(***************************************************************************)
(* POST /hit (routes/traffic.ts).  A date parameter is a sequence of       *)
(* characters; the parameters tried have a year above 99 and a month of    *)
(* 1..12, for which new Date(year, month, day, 12) is that civil date.     *)
(***************************************************************************)
Digits == <<"0", "1", "2", "3", "4", "5", "6", "7", "8", "9">>
IsDigit(c) == \E i \in DOMAIN Digits : Digits[i] = c
DigitValue(c) == (CHOOSE i \in DOMAIN Digits : Digits[i] = c) - 1

\* dateStr.split("-")
RECURSIVE Split(_)
Split(s) ==
  IF s = <<>> THEN << <<>> >>
  ELSE LET rest == Split(Tail(s))
       IN  IF Head(s) = "-" THEN << <<>> >> \o rest
           ELSE << <<Head(s)>> \o rest[1] >> \o Tail(rest)

\* parseInt(part): the number its leading digits spell, NaN when it has none
NaN == -1
RECURSIVE LeadingDigits(_)
LeadingDigits(s) ==
  IF s = <<>> \/ ~IsDigit(Head(s)) THEN <<>>
  ELSE <<DigitValue(Head(s))>> \o LeadingDigits(Tail(s))
parseInt(s) == IF LeadingDigits(s) = <<>> THEN NaN ELSE ParseInt(LeadingDigits(s))

\* targetDate of a non-empty parameter: noon of the date, NaN when the route
\* answers 400 (not three parts, or a part that parses to NaN)
TargetDate(dateStr) ==
  LET parts == Split(dateStr)
  IN  IF Len(parts) # 3 THEN NaN
      ELSE LET year == parseInt(parts[1])
               month == parseInt(parts[2])
               day == parseInt(parts[3])
           IN  IF year = NaN \/ month = NaN \/ day = NaN THEN NaN
               ELSE DaysFromCivil(year, month, day) * 1440 + 720

\* the date parameters tried: none, yesterday, today, and malformed ones
DateStrings ==
  { <<>>,
    <<"2", "0", "2", "5", "-", "0", "1", "-", "0", "3">>,
    <<"2", "0", "2", "5", "-", "0", "1", "-", "0", "4">>,
    <<"2", "0", "2", "5", "-", "0", "1", "-", "0", "3", "x">>,
    <<"2", "0", "2", "5", "-", "0", "1">>,
    <<"x", "-", "0", "1", "-", "0", "3">>,
    <<"0", "3", "/", "0", "1", "/", "2", "0", "2", "5">> }

NotHit == <<startup, wsVars, afterHit>>

\* the route handler, to its response: 400 for a parameter without a date,
\* otherwise recordHit is called (not awaited) and 202 is answered; the call
\* runs to the first await of queueTrafficEvents
PostHit(p, dateStr) ==
  /\ http[p].status = 0
  /\ enqueues[p].pc = "idle"
  /\ \A q \in Enqueuers : q < p => http[q].status # 0
  /\ IF dateStr # <<>> /\ TargetDate(dateStr) = NaN
     THEN /\ http' = [http EXCEPT ![p] = [date |-> dateStr, status |-> 400]]
          /\ UNCHANGED <<eventBuffer, enqueues>>
     ELSE LET baseDate == IF dateStr = <<>> THEN NowMinute ELSE TargetDate(dateStr)
              minuteTimestamp == MinuteTimestamp(baseDate, NowMinute)
          IN  /\ http' = [http EXCEPT ![p] = [date |-> dateStr, status |-> 202]]
              /\ eventBuffer' = eventBuffer \o EventsOf(p, minuteTimestamp, 1)
              /\ enqueues' = [enqueues EXCEPT ![p] =
                   [pc |-> "increment", kind |-> "bulk", ts |-> minuteTimestamp, n |-> 1]]
  /\ UNCHANGED <<unhandled, flushTimer, isProcessingBuffer, inflight, batchQueue, force,
                 minuteVars, trafficMinute, storeVars, callVars, aggVars, NotHit>>

\* a command of redisCounter.increment or incrementMinute is answered with an
\* error: queueTrafficEvents, recordHits and recordHit reject in turn, and
\* the route, which dropped the promise, has no handler for it
QueueRedisFails(p) ==
  /\ enqueues[p].pc \in {"increment", "minute_incrby", "minute_sadd"}
  /\ enqueues' = [enqueues EXCEPT ![p].pc = "rejected"]
  /\ unhandled' = IF http[p].status = 0 THEN unhandled ELSE unhandled \cup {p}
  /\ UNCHANGED <<http, bufferVars, force, minuteVars, trafficMinute, storeVars,
                 callVars, aggVars, NotHit>>

NextHit ==
  \/ \E p \in Enqueuers, dateStr \in DateStrings : PostHit(p, dateStr)
  \/ \E p \in Enqueuers : QueueRedisFails(p)
  \/ QueueStep

SpecHit == InitQueue /\ [][NextHit]_vars

(***************************************************************************)
(* getTrafficForDate(date) of the TrafficService that counts in Redis      *)
(***************************************************************************)
NotRead == <<storeVars, callVars, queueVars, aggVars, startup, wsVars, hitVars, afterRead>>

\* isWithinWeek(date): date >= now - 7 days
isWithinWeek(date) == date >= now - 7 * 1440

\* the call is made: today and the days of the last week are asked of Redis
\* first, older days of the database
ReadStart(date) ==
  /\ read.pc = "idle"
  /\ read' = [pc |-> IF getLocalDateString(date) = getLocalDateString(now)
                        \/ isWithinWeek(date)
                     THEN "redis_get" ELSE "daily",
              date |-> date, result |-> 0]
  /\ UNCHANGED NotRead

\* redisCounter.get answers: a positive count is returned, otherwise the
\* database is asked
ReadRedisGet ==
  /\ read.pc = "redis_get"
  /\ LET redisCount == ParseOrZero(dateCounter[getLocalDateString(read.date)])
     IN  read' = IF redisCount > 0
                 THEN [read EXCEPT !.pc = "done", !.result = redisCount]
                 ELSE [read EXCEPT !.pc = "daily"]
  /\ UNCHANGED NotRead

\* redisCounter.get is answered with an error: the await is outside the try
\* block, so getTrafficForDate rejects
ReadRedisFails ==
  /\ read.pc = "redis_get"
  /\ read' = [read EXCEPT !.pc = "rejected"]
  /\ UNCHANGED NotRead

\* the select of the day's traffic_daily row answers
ReadDaily ==
  /\ read.pc = "daily"
  /\ LET count == trafficDaily[DayStart(read.date)]
     IN  read' = IF count # 0
                 THEN [read EXCEPT !.pc = "done", !.result = count]
                 ELSE [read EXCEPT !.pc = "minute"]
  /\ UNCHANGED NotRead

\* the sum of the day's traffic_minute rows answers
ReadMinute ==
  /\ read.pc = "minute"
  /\ read' = [read EXCEPT !.pc = "done",
                !.result = SumCounts(trafficMinute, DayStart(read.date),
                                     DayStart(read.date) + 1439)]
  /\ UNCHANGED NotRead

\* a select fails: catch { return 0 }
ReadDbFails ==
  /\ read.pc \in {"daily", "minute"}
  /\ read' = [read EXCEPT !.pc = "done", !.result = 0]
  /\ UNCHANGED NotRead

\* the days asked for: today and the day a week ago
ReadDays == {DayStart(Clock[1]), PastDate}
ReadDates == {getLocalDateString(d) : d \in DayKeys}

\* the service with any counters in Redis and any rows in the database for
\* the days asked for
InitRead ==
  /\ dateCounter \in [ReadDates -> {Nil, NumberToString(0), NumberToString(MaxDbValue)}]
  /\ \A d \in DayKeys \ ReadDays : dateCounter[getLocalDateString(d)] = Nil
  /\ dateTtl = [d \in ReadDates |-> dateCounter[d] # Nil]
  /\ CallsIdle
  /\ minuteCounter = [k \in AggMinutes |-> Nil]
  /\ pendingMinutes = {}
  /\ trafficMinute \in [AggMinutes -> {0, 1}]
  /\ \A k \in AggMinutes : k % 1440 # Clock[1] % 1440 => trafficMinute[k] = 0
  /\ BufferIdle
  /\ clock = 1
  /\ aggregationTimer = {}
  /\ trafficHourly = [h \in HourKeys |-> 0]
  /\ trafficDaily \in [DayKeys -> {0, 2}]
  /\ \A d \in DayKeys \ ReadDays : trafficDaily[d] = 0
  /\ trafficWeekly = [w \in WeekKeys |-> 0]
  /\ trafficMonthly = [m \in MonthKeys |-> 0]
  /\ runs = EmptyBag
  /\ hourReads = [h \in HourKeys |-> <<>>]
  /\ hits = 0
  /\ started = 0
  /\ OtherIdle

NextRead ==
  \/ \E date \in ReadDays : ReadStart(date + 720)
  \/ ReadRedisGet
  \/ ReadRedisFails
  \/ ReadDaily
  \/ ReadMinute
  \/ ReadDbFails

SpecRead == InitRead /\ [][NextRead]_vars

(***************************************************************************)
(* The TrafficService that buffers in memory (services/traffic.ts):        *)
(* recordHits and flushToDatabase.  A Map is the sequence of its entries   *)
(* in insertion order.                                                     *)
(***************************************************************************)
NotMem == <<storeVars, callVars, minuteVars, bufferVars, enqueues, force,
            clock, aggregationTimer, tableVars, runs, hourReads, started,
            startup, wsVars, hitVars, read, afterMem>>

\* map.get(key) || 0
RECURSIVE MapGet(_, _)
MapGet(map, key) ==
  IF map = <<>> THEN 0
  ELSE IF Head(map).key = key THEN Head(map).count
  ELSE MapGet(Tail(map), key)

\* map.set(key, count): an entry keeps its place, a new one goes last
MapSet(map, key, count) ==
  IF \E i \in DOMAIN map : map[i].key = key
  THEN [i \in DOMAIN map |-> IF map[i].key = key
                             THEN [key |-> key, count |-> count] ELSE map[i]]
  ELSE Append(map, [key |-> key, count |-> count])

\* recordHits(count, targetDate): the minute's pending count grows
MemRecordHits(count, minuteKey) ==
  /\ hits < MaxHits
  /\ hits' = hits + 1
  /\ pendingByMinute' = MapSet(pendingByMinute, minuteKey,
                               MapGet(pendingByMinute, minuteKey) + count)
  /\ accepted' = [accepted EXCEPT ![minuteKey] = @ + count]
  /\ UNCHANGED <<flushes, trafficMinute, aggFailed, NotMem>>

\* flushToDatabase, called by the interval or by shutdown, to its first
\* await: the pending entries are copied and the Map is cleared
flushToDatabase ==
  /\ pendingByMinute # <<>>
  /\ flushes' = flushes (+) One(pendingByMinute)
  /\ pendingByMinute' = <<>>
  /\ UNCHANGED <<accepted, hits, trafficMinute, aggFailed, NotMem>>

\* what is left of a run after its first entry
AfterEntry(toFlush) ==
  IF Len(toFlush) = 1 THEN flushes (-) One(toFlush)
  ELSE (flushes (-) One(toFlush)) (+) One(Tail(toFlush))

\* the upsert of a run's entry answers: count = count + the entry's count
FlushWriteOk(toFlush) ==
  /\ BagIn(toFlush, flushes)
  /\ trafficMinute' = [trafficMinute EXCEPT ![Head(toFlush).key] = @ + Head(toFlush).count]
  /\ flushes' = AfterEntry(toFlush)
  /\ UNCHANGED <<pendingByMinute, accepted, hits, aggFailed, NotMem>>

\* the catch block: the entry's count goes back to what is pending now
RestoreOverwrites(current, count) == count
Restore(current, count) == current + count

\* the upsert of a run's entry fails
FlushWriteFails(toFlush) ==
  /\ BagIn(toFlush, flushes)
  /\ aggFailed < MaxFailures
  /\ aggFailed' = aggFailed + 1
  /\ pendingByMinute' = MapSet(pendingByMinute, Head(toFlush).key,
       Restore(MapGet(pendingByMinute, Head(toFlush).key), Head(toFlush).count))
  /\ flushes' = AfterEntry(toFlush)
  /\ UNCHANGED <<accepted, hits, trafficMinute, NotMem>>

NextMem ==
  \/ \E count \in 1..MaxAmount, k \in MinuteKeys : MemRecordHits(count, k)
  \/ flushToDatabase
  \/ \E f \in BagToSet(flushes) : FlushWriteOk(f)
  \/ \E f \in BagToSet(flushes) : FlushWriteFails(f)

SpecMem == InitQueue /\ [][NextMem]_vars

(***************************************************************************)
(* The batch worker (worker/event.worker.ts) on the queue "batch-db-writes" *)
(* with defaultJobOptions attempts 3 and exponential backoff of 1000 ms:   *)
(* a job whose processor throws is delayed and tried again until it has    *)
(* made `attempts` attempts, a job whose processor returns is completed.   *)
(***************************************************************************)
attempts == 3
backoffDelay == 1000

NotWorker == <<storeVars, callVars, minuteCounter, eventBuffer, flushTimer,
               isProcessingBuffer, inflight, enqueues, force, aggVars,
               startup, wsVars, hitVars, read, aggFailed, memVars, afterWorker>>

\* the keys of minuteAggregates, in insertion order
RECURSIVE MinutesOf(_, _)
MinutesOf(events, seen) ==
  IF events = <<>> THEN <<>>
  ELSE IF Head(events).timestamp \in seen THEN MinutesOf(Tail(events), seen)
  ELSE <<Head(events).timestamp>>
       \o MinutesOf(Tail(events), seen \cup {Head(events).timestamp})

RECURSIVE Pow2(_)
Pow2(n) == IF n = 0 THEN 1 ELSE 2 * Pow2(n - 1)

\* the worker takes the oldest waiting job
WorkerTake ==
  /\ worker.state \in {"idle", "completed", "failed"}
  /\ batchQueue # <<>>
  /\ worker' = [state |-> "active", pc |-> "get",
                minutes |-> MinutesOf(Head(batchQueue), {}),
                left |-> MinutesOf(Head(batchQueue), {}),
                attemptsMade |-> 0, delay |-> 0, redisCount |-> 0,
                failedWrites |-> {}]
  /\ batchQueue' = Tail(batchQueue)
  /\ UNCHANGED <<pendingMinutes, trafficMinute, NotWorker>>

\* the backoff delay of a job is over: the processor runs again
WorkerRetry ==
  /\ worker.state = "delayed"
  /\ worker' = [worker EXCEPT !.state = "active", !.pc = "get",
                              !.left = worker.minutes, !.failedWrites = {}]
  /\ UNCHANGED <<batchQueue, pendingMinutes, trafficMinute, NotWorker>>

\* redisCounter.getMinute answers for the next minute of the job
WorkerGetMinute ==
  /\ worker.state = "active" /\ worker.pc = "get" /\ worker.left # <<>>
  /\ LET redisCount == ParseOrZero(minuteCounter[Head(worker.left)])
     IN  worker' = IF redisCount > 0
                   THEN [worker EXCEPT !.pc = "upsert", !.redisCount = redisCount]
                   ELSE [worker EXCEPT !.left = Tail(@)]
  /\ UNCHANGED <<batchQueue, pendingMinutes, trafficMinute, NotWorker>>

\* redisCounter.getMinute rejects: the processor throws, and the queue
\* delays the job or, after its last attempt, fails it
WorkerGetFails ==
  /\ worker.state = "active" /\ worker.pc = "get" /\ worker.left # <<>>
  /\ worker' = [worker EXCEPT
       !.attemptsMade = @ + 1,
       !.state = IF worker.attemptsMade + 1 < attempts THEN "delayed" ELSE "failed",
       !.delay = IF worker.attemptsMade + 1 < attempts
                 THEN backoffDelay * Pow2(worker.attemptsMade) ELSE 0,
       !.pc = "none"]
  /\ UNCHANGED <<batchQueue, pendingMinutes, trafficMinute, NotWorker>>

\* the upsert of the minute row answers: count = the Redis count
WorkerUpsertOk ==
  /\ worker.state = "active" /\ worker.pc = "upsert"
  /\ trafficMinute' = [trafficMinute EXCEPT ![Head(worker.left)] = worker.redisCount]
  /\ worker' = [worker EXCEPT !.pc = "srem"]
  /\ UNCHANGED <<batchQueue, pendingMinutes, NotWorker>>

\* the upsert fails: the catch logs it and the loop goes on
WorkerUpsertFails ==
  /\ worker.state = "active" /\ worker.pc = "upsert"
  /\ worker' = [worker EXCEPT !.pc = "get", !.left = Tail(@),
                              !.failedWrites = @ \cup {Head(worker.left)}]
  /\ UNCHANGED <<batchQueue, pendingMinutes, trafficMinute, NotWorker>>

\* redisCounter.removePendingMinute answers, or fails into the same catch
WorkerSrem ==
  /\ worker.state = "active" /\ worker.pc = "srem"
  /\ \/ pendingMinutes' = pendingMinutes \ {Head(worker.left)}
     \/ UNCHANGED pendingMinutes
  /\ worker' = [worker EXCEPT !.pc = "get", !.left = Tail(@)]
  /\ UNCHANGED <<batchQueue, trafficMinute, NotWorker>>

\* the processor returns: the job is completed
WorkerComplete ==
  /\ worker.state = "active" /\ worker.pc = "get" /\ worker.left = <<>>
  /\ worker' = [worker EXCEPT !.state = "completed", !.pc = "none",
                              !.attemptsMade = @ + 1]
  /\ UNCHANGED <<batchQueue, pendingMinutes, trafficMinute, NotWorker>>

WorkerStep ==
  \/ WorkerTake
  \/ WorkerRetry
  \/ WorkerGetMinute
  \/ WorkerGetFails
  \/ WorkerUpsertOk
  \/ WorkerUpsertFails
  \/ WorkerSrem
  \/ WorkerComplete

NextWorker == QueueCall \/ QueueStep \/ WorkerStep

SpecWorker == InitQueue /\ [][NextWorker]_vars

(***************************************************************************)
(* Shutdown: the handler of SIGTERM and SIGINT.  It awaits                 *)
(* wsManager.shutdown(), trafficService.shutdown(), shutdownQueues() and   *)
(* shutdownRedis() in turn, and only then calls server.close and arms the  *)
(* 5 s timer.  An awaited command completes when Redis, the queue or the   *)
(* database answers; nothing in the process makes it answer.               *)
(***************************************************************************)
\* what the steps of the handler leave alone
NotShutdown == <<storeVars, callVars, minuteVars, trafficMinute, enqueues, clock,
                 tableVars, runs, hourReads, hits, started, startup, wsNow,
                 todayTotal, subVars, messageQueue, lastBroadcastTime,
                 broadcastStarts, clients, isAlive, pinged, lastDataSent, sent,
                 fetches, wsCount, hitVars, read, aggFailed, memVars, worker,
                 afterShutdown>>

Signals == {"SIGTERM", "SIGINT"}

\* wsManager.shutdown after the unsubscribe: client.close() for each client
CloseClients ==
  socket' = [c \in Clients |->
               IF socket[c] = "open" /\ \E i \in 1..Len(clients) : clients[i] = c
               THEN "closed" ELSE socket[c]]

\* trafficService.shutdown: the timers are cleared, forceFlush is awaited
TrafficShutdown ==
  /\ aggregationTimer' = {}
  /\ ForceFlushFrom(IdleForce)

\* a signal arrives: wsManager.shutdown clears its timers and, when the
\* subscription is ready, awaits the unsubscribe; otherwise it closes the
\* clients and the handler goes on to trafficService.shutdown
Signal(sig) ==
  /\ shutdown.pc = "running"
  /\ broadcastThrottleTimer' = ClearTimeout(broadcastThrottleTimer)
  /\ IF subscriptionReady
     THEN /\ shutdown' = [shutdown EXCEPT !.pc = "unsubscribe", !.signal = sig]
          /\ UNCHANGED <<socket, aggregationTimer, bufferVars, force>>
     ELSE /\ shutdown' = [shutdown EXCEPT !.pc = "traffic", !.signal = sig]
          /\ CloseClients
          /\ TrafficShutdown
  /\ UNCHANGED NotShutdown

\* subClient.unsubscribe answers or rejects (caught): the clients are closed
\* and the handler goes on to trafficService.shutdown
UnsubscribeDone ==
  /\ shutdown.pc = "unsubscribe"
  /\ shutdown' = [shutdown EXCEPT !.pc = "traffic"]
  /\ CloseClients
  /\ TrafficShutdown
  /\ UNCHANGED <<broadcastThrottleTimer, NotShutdown>>

\* the forceFlush of trafficService.shutdown has returned: shutdownQueues
\* calls forceFlush again
TrafficStopped ==
  /\ shutdown.pc = "traffic"
  /\ force.pc = "done"
  /\ shutdown' = [shutdown EXCEPT !.pc = "queues"]
  /\ ForceFlushFrom(IdleForce)
  /\ UNCHANGED <<socket, aggregationTimer, broadcastThrottleTimer, NotShutdown>>

\* that forceFlush has returned: batchQueue.close() is awaited
QueuesFlushed ==
  /\ shutdown.pc = "queues"
  /\ force.pc = "done"
  /\ shutdown' = [shutdown EXCEPT !.pc = "queue_close"]
  /\ UNCHANGED <<socket, aggregationTimer, broadcastThrottleTimer, bufferVars, force,
                 NotShutdown>>

\* batchQueue.close() answers: shutdownRedis awaits the quit of the clients
QueueClosed ==
  /\ shutdown.pc = "queue_close"
  /\ shutdown' = [shutdown EXCEPT !.pc = "redis"]
  /\ UNCHANGED <<socket, aggregationTimer, broadcastThrottleTimer, bufferVars, force,
                 NotShutdown>>

\* the four quit commands have answered: server.close is called and the
\* 5 s timer is armed
RedisClosed ==
  /\ shutdown.pc = "redis"
  /\ shutdown' = [shutdown EXCEPT !.pc = "closing", !.timer = TRUE]
  /\ UNCHANGED <<socket, aggregationTimer, broadcastThrottleTimer, bufferVars, force,
                 NotShutdown>>

\* the callback of server.close: process.exit(0)
ServerClosed ==
  /\ shutdown.pc = "closing"
  /\ shutdown' = [shutdown EXCEPT !.pc = "exited", !.timer = FALSE, !.code = 0]
  /\ UNCHANGED <<socket, aggregationTimer, broadcastThrottleTimer, bufferVars, force,
                 NotShutdown>>

\* the 5 s timer fires: process.exit(1)
ExitTimer ==
  /\ shutdown.timer
  /\ shutdown.pc # "exited"
  /\ shutdown' = [shutdown EXCEPT !.pc = "exited", !.timer = FALSE, !.code = 1]
  /\ UNCHANGED <<socket, aggregationTimer, broadcastThrottleTimer, bufferVars, force,
                 NotShutdown>>

\* the process has not exited
Alive == shutdown.pc # "exited"

\* syncPendingMinutes of a forceFlush goes on
SyncStep ==
  \/ SyncMembers
  \/ \E k \in MinuteKeys : SyncGetMinute(k)
  \/ SyncUpsertOk
  \/ SyncUpsertFail
  \/ SyncSrem

\* hits are recorded and flushed, the subscription is set up, and a signal
\* starts the handler
NextShutdown ==
  \/ Alive /\ \E p \in Enqueuers : NextEnqueuer(p) /\ QueuePush(p, "single", NowMinute, 1)
  \/ Alive /\ QueueStep
  \/ Alive /\ SyncStep
  \/ Alive /\ NextSubscription
  \/ \E sig \in Signals : Signal(sig)
  \/ UnsubscribeDone
  \/ TrafficStopped
  \/ QueuesFlushed
  \/ QueueClosed
  \/ RedisClosed
  \/ ServerClosed
  \/ ExitTimer

\* the timer of the handler fires when due, and the handler goes on when the
\* call it awaits has returned
SpecShutdown ==
  /\ InitQueue
  /\ [][NextShutdown]_vars
  /\ WF_vars(ExitTimer) /\ WF_vars(TrafficStopped) /\ WF_vars(QueuesFlushed)

(***************************************************************************)
(* Dashboard: the totals of the page.  processData (REST poll) and         *)
(* ws.onmessage take a total only when it is not below the greatest seen;  *)
(* each shown number is a SmoothCounter, whose useMonotonicCounter hook    *)
(* animates from the greatest value it was given to a greater one.  The    *)
(* week view is modelled (periodTotal = totalTraffic).                     *)
(***************************************************************************)
NotDashboard == <<storeVars, callVars, queueVars, aggVars, startup, wsVars, hitVars,
                  read, aggFailed, memVars, worker, shutdown, afterDashboard>>

\* the totals a message can carry, and <<>> for a field that is absent
Shown == 0..MaxShown
Fields == {<<>>} \cup {<<v>> : v \in Shown}

\* message.total || 0
OrZero(field) == IF field = <<>> THEN 0 ELSE field[1]

\* the test that guards a total
AcceptsAll(new, max) == TRUE

Accepts(new, max) == new >= max

\* the two guarded updates, which processData and ws.onmessage both make
TakeTotals(total, currentDay) ==
  LET newTotal == OrZero(total)
      newToday == OrZero(currentDay)
      takesTotal == Accepts(newTotal, dashboard.maxTotalRef)
      takesToday == Accepts(newToday, dashboard.maxTodayRef)
  IN dashboard' = [dashboard EXCEPT
       !.maxTotalRef = IF takesTotal THEN newTotal ELSE @,
       !.totalTraffic = IF takesTotal THEN newTotal ELSE @,
       !.maxTodayRef = IF takesToday THEN newToday ELSE @,
       !.todayTraffic = IF takesToday THEN newToday ELSE @]

\* ws.onmessage with a message of type "traffic"
WsMessage(total, currentDay) ==
  /\ TakeTotals(total, currentDay)
  /\ UNCHANGED NotDashboard

\* fetchData: the response of GET /api/traffic reaches processData
PollResponse(total, currentDay) ==
  /\ TakeTotals(total, currentDay)
  /\ UNCHANGED NotDashboard

\* the state a counter is given as its value
ValueOf(c) == IF c = "total" THEN dashboard.totalTraffic ELSE dashboard.todayTraffic

Counters == {"total", "today"}

\* the page renders with a changed value: the cleanup of the effect cancels
\* the animation, and the effect starts one from maxValueRef when the value
\* is greater
RenderCounter(c) ==
  LET counter == dashboard[c]
      externalValue == ValueOf(c)
  IN /\ counter.external # externalValue
     /\ dashboard' = [dashboard EXCEPT ![c] =
          IF externalValue > counter.maxValueRef
          THEN [counter EXCEPT !.external = externalValue,
                               !.maxValueRef = externalValue,
                               !.animation = <<[startValue |-> counter.maxValueRef,
                                                endValue |-> externalValue,
                                                frame |-> 0]>>]
          ELSE IF externalValue > 0 /\ counter.maxValueRef = 0
          THEN [counter EXCEPT !.external = externalValue,
                               !.maxValueRef = externalValue,
                               !.displayValue = externalValue,
                               !.animation = <<>>]
          ELSE [counter EXCEPT !.external = externalValue, !.animation = <<>>]]
     /\ UNCHANGED NotDashboard

\* Math.round(startValue + diff * eased) at progress frame / AnimationFrames,
\* with eased = 1 - (1 - progress)^3
Eased(a, frame) ==
  LET n == AnimationFrames
      num == n * n * n - (n - frame) * (n - frame) * (n - frame)
      den == n * n * n
      diff == a.endValue - a.startValue
  IN (2 * den * a.startValue + 2 * diff * num + den) \div (2 * den)

\* an animation frame, elapsed / duration after the start having reached
\* frame / AnimationFrames; the last frame sets the end value
Animate(c, frame) ==
  LET counter == dashboard[c]
  IN /\ counter.animation # <<>>
     /\ frame >= counter.animation[1].frame
     /\ dashboard' = [dashboard EXCEPT ![c] =
          IF frame < AnimationFrames
          THEN [counter EXCEPT !.displayValue = Eased(counter.animation[1], frame),
                               !.animation = <<[counter.animation[1] EXCEPT
                                                  !.frame = frame]>>]
          ELSE [counter EXCEPT !.displayValue = counter.animation[1].endValue,
                               !.animation = <<>>]]
     /\ UNCHANGED NotDashboard

NextDashboard ==
  \/ \E total \in Fields, currentDay \in Fields : WsMessage(total, currentDay)
  \/ \E total \in Fields, currentDay \in Fields : PollResponse(total, currentDay)
  \/ \E c \in Counters : RenderCounter(c)
  \/ \E c \in Counters, frame \in 0..AnimationFrames : Animate(c, frame)

SpecDashboard == InitQueue /\ [][NextDashboard]_vars

(***************************************************************************)
(* A burst: Burst hits, more than twice BATCH_SIZE, are enqueued by calls  *)
(* that overlap, well within FLUSH_INTERVAL_MS, so that no flush timer     *)
(* fires; batchQueue.add answers.  Every batch in the queue is then the    *)
(* batch of a flush that an enqueue call started on the buffer size.       *)
(***************************************************************************)
Burst == 2 * BATCH_SIZE + 1

\* the hits the calls made so far passed
RECURSIVE Enqueued(_)
Enqueued(p) == IF p = 0 THEN 0 ELSE enqueues[p].n + Enqueued(p - 1)

\* the next call of the burst: queueTrafficEvent for one hit,
\* queueTrafficEvents for several; the last call passes what is left
BurstPush(p, n) ==
  /\ NextEnqueuer(p)
  /\ Enqueued(MaxEnqueues) + n <= Burst
  /\ p = MaxEnqueues => Enqueued(MaxEnqueues) + n = Burst
  /\ QueuePush(p, IF n = 1 THEN "single" ELSE "bulk", NowMinute, n)

NextBurst ==
  \/ \E p \in Enqueuers, n \in 1..Burst : BurstPush(p, n)
  \/ \E p \in Enqueuers : QueueIncrement(p)
  \/ \E p \in Enqueuers : QueueMinuteIncrby(p)
  \/ \E p \in Enqueuers : QueueMinuteSadd(p)
  \/ \E p \in Enqueuers : QueueSchedule(p)
  \/ \E f \in inflight : FlushAddOk(f)

SpecBurst == InitQueue /\ [][NextBurst]_vars

(***************************************************************************)
(* recordHits with its await: the call awaits queueTrafficEvents and then  *)
(* calls triggerAggregation, which replaces the debounce timer.  Calls     *)
(* overlap: POST /hit does not await recordHit.                            *)
(***************************************************************************)
\* recordHits(1, targetDate) to its await: queueTrafficEvents pushes the event
RecordHitsCall(p, minuteTimestamp) ==
  /\ NextEnqueuer(p)
  /\ QueuePush(p, "bulk", minuteTimestamp, 1)

\* queueTrafficEvents has returned: triggerAggregation(minuteTimestamp)
\* clears the timer and arms one for the timestamp of this call
RecordHitsTriggers(p) ==
  /\ enqueues[p].pc = "done"
  /\ enqueues' = [enqueues EXCEPT ![p].pc = "triggered"]
  /\ aggregationTimer' = {enqueues[p].ts}
  /\ UNCHANGED <<storeVars, callVars, minuteVars, trafficMinute, bufferVars, force,
                 clock, tableVars, runs, hourReads, hits, started, otherVars>>

NextDebounce ==
  \/ \E p \in Enqueuers, ts \in MinuteKeys : RecordHitsCall(p, ts)
  \/ QueueStep
  \/ \E p \in Enqueuers : RecordHitsTriggers(p)
  \/ AggregationTimerFires

SpecDebounce == InitQueue /\ [][NextDebounce]_vars

(***************************************************************************)
(* POST /api/sync: the date counters are deleted (KEYS, DEL), then for     *)
(* each of the last 7 days the sum of the minute rows is selected and,     *)
(* when positive, SET as the counter of the day, with EXPIRE.  Hits are    *)
(* recorded, flushed and written by the worker meanwhile.                  *)
(***************************************************************************)
NotResync == <<callVars, queueVars, aggVars, startup, wsVars, hitVars, read,
               aggFailed, memVars, worker, shutdown, dashboard, afterResync>>

\* the day the loop is at: date.setDate(now.getDate() - i), at midnight
ResyncDay == DayStart(now) - resync.i * 1440

\* the loop goes on with the next day, or the route answers
ResyncNext(r) ==
  IF r.i + 1 < 7 THEN [r EXCEPT !.pc = "select", !.i = @ + 1]
  ELSE [r EXCEPT !.pc = "done"]

\* the route is called: counterClient.keys("traffic:counter:*") is sent
ResyncCall ==
  /\ resync.pc = "idle"
  /\ resync' = [resync EXCEPT !.pc = "keys"]
  /\ UNCHANGED <<storeVars, NotResync>>

\* KEYS answers with the counters that exist
ResyncKeys ==
  /\ resync.pc = "keys"
  /\ LET keys == {d \in DOMAIN dateCounter : dateCounter[d] # Nil}
     IN resync' = [resync EXCEPT !.keys = keys,
                     !.pc = IF keys = {} THEN "select" ELSE "del"]
  /\ UNCHANGED <<storeVars, NotResync>>

\* DEL of those keys
ResyncDel ==
  /\ resync.pc = "del"
  /\ dateCounter' = [d \in DOMAIN dateCounter |->
                       IF d \in resync.keys THEN Nil ELSE dateCounter[d]]
  /\ dateTtl' = [d \in DOMAIN dateTtl |-> IF d \in resync.keys THEN FALSE ELSE dateTtl[d]]
  /\ resync' = [resync EXCEPT !.pc = "select"]
  /\ UNCHANGED NotResync

\* the SELECT of COALESCE(SUM(count), 0) over the minute rows of the day
ResyncSelect ==
  /\ resync.pc = "select"
  /\ LET count == SumCounts(trafficMinute, ResyncDay, ResyncDay + 1439)
     IN resync' = IF count > 0 THEN [resync EXCEPT !.pc = "set", !.count = count]
                  ELSE ResyncNext(resync)
  /\ UNCHANGED <<storeVars, NotResync>>

\* SET traffic:counter:<date> count
ResyncSet ==
  /\ resync.pc = "set"
  /\ dateCounter' = [dateCounter EXCEPT
                       ![getLocalDateString(ResyncDay)] = NumberToString(resync.count)]
  /\ dateTtl' = [dateTtl EXCEPT ![getLocalDateString(ResyncDay)] = FALSE]
  /\ resync' = [resync EXCEPT !.pc = "expire"]
  /\ UNCHANGED NotResync

\* EXPIRE traffic:counter:<date> 8 days
ResyncExpire ==
  /\ resync.pc = "expire"
  /\ dateTtl' = [dateTtl EXCEPT ![getLocalDateString(ResyncDay)] = TRUE]
  /\ resync' = ResyncNext(resync)
  /\ UNCHANGED <<dateCounter, NotResync>>

ResyncStep ==
  \/ ResyncCall
  \/ ResyncKeys
  \/ ResyncDel
  \/ ResyncSelect
  \/ ResyncSet
  \/ ResyncExpire

\* recordHits calls, flushes and the worker, where every command is answered
NextResync ==
  \/ \E p \in Enqueuers, ts \in MinuteKeys : RecordHitsCall(p, ts)
  \/ \E p \in Enqueuers : QueueIncrement(p)
  \/ \E p \in Enqueuers : QueueMinuteIncrby(p)
  \/ \E p \in Enqueuers : QueueMinuteSadd(p)
  \/ \E p \in Enqueuers : QueueSchedule(p)
  \/ TimerFires
  \/ \E f \in inflight : FlushAddOk(f)
  \/ WorkerTake
  \/ WorkerGetMinute
  \/ WorkerUpsertOk
  \/ WorkerSrem
  \/ WorkerComplete
  \/ ResyncStep

SpecResync == InitQueue /\ [][NextResync]_vars

(***************************************************************************)
(* The pending-minutes set: incrementMinute (INCRBY, SADD), the batch      *)
(* worker and syncPendingMinutes (GET, upsert, SREM) on the same keys      *)
(***************************************************************************)
NextPending ==
  \/ \E p \in Enqueuers, ts \in MinuteKeys : RecordHitsCall(p, ts)
  \/ QueueStep
  \/ WorkerStep
  \/ ForceStep

SpecPending == InitQueue /\ [][NextPending]_vars

(***************************************************************************)
(* The fast store loses keys: a minute counter expires 2 hours after its   *)
(* last increment, and POST /api/reset/redis deletes every traffic:* key   *)
(* (KEYS, then DEL of the keys found)                                      *)
(***************************************************************************)
\* the key traffic:minute:<k> expires; the EXPIRE of an incrementMinute call
\* that has done its INCRBY is still to come
MinuteExpires(k) ==
  /\ minuteCounter[k] # Nil
  /\ \A p \in Enqueuers : ~(enqueues[p].pc = "minute_sadd" /\ enqueues[p].ts = k)
  /\ minuteCounter' = [minuteCounter EXCEPT ![k] = Nil]
  /\ UNCHANGED <<pendingMinutes, trafficMinute, bufferVars, enqueues, force, storeVars,
                 callVars, aggVars, otherVars>>

\* the reset route is called with the confirmation header: KEYS traffic:*
ResetCall ==
  /\ resync.pc = "idle"
  /\ resync' = [resync EXCEPT !.pc = "reset_keys"]
  /\ UNCHANGED <<storeVars, NotResync>>

\* KEYS answers with the keys that exist
ResetKeys ==
  /\ resync.pc = "reset_keys"
  /\ LET keys == {<<"counter", d>> : d \in {d \in DOMAIN dateCounter : dateCounter[d] # Nil}}
                 \cup {<<"minute", k>> : k \in {k \in DOMAIN minuteCounter : minuteCounter[k] # Nil}}
                 \cup (IF pendingMinutes = {} THEN {} ELSE {<<"pending_minutes", 0>>})
     IN resync' = [resync EXCEPT !.keys = keys,
                                 !.pc = IF keys = {} THEN "done" ELSE "reset_del"]
  /\ UNCHANGED <<storeVars, NotResync>>

\* DEL of those keys
ResetDel ==
  /\ resync.pc = "reset_del"
  /\ dateCounter' = [d \in DOMAIN dateCounter |->
                       IF <<"counter", d>> \in resync.keys THEN Nil ELSE dateCounter[d]]
  /\ dateTtl' = [d \in DOMAIN dateTtl |->
                   IF <<"counter", d>> \in resync.keys THEN FALSE ELSE dateTtl[d]]
  /\ minuteCounter' = [k \in DOMAIN minuteCounter |->
                         IF <<"minute", k>> \in resync.keys THEN Nil ELSE minuteCounter[k]]
  /\ pendingMinutes' = IF <<"pending_minutes", 0>> \in resync.keys THEN {} ELSE pendingMinutes
  /\ resync' = [resync EXCEPT !.pc = "done"]
  /\ UNCHANGED <<callVars, trafficMinute, bufferVars, enqueues, force, aggVars, startup,
                 wsVars, hitVars, read, aggFailed, memVars, worker, shutdown, dashboard,
                 afterResync>>

\* hits of one minute of one target date, the writers of the durable count,
\* and the loss of fast keys; no command fails
NextDurable ==
  \/ \E p \in Enqueuers, n \in 1..MaxBulk :
       NextEnqueuer(p) /\ QueuePush(p, "bulk", PastMinute, n)
  \/ \E p \in Enqueuers : QueueIncrement(p)
  \/ \E p \in Enqueuers : QueueMinuteIncrby(p)
  \/ \E p \in Enqueuers : QueueMinuteSadd(p)
  \/ \E p \in Enqueuers : QueueSchedule(p)
  \/ TimerFires
  \/ \E f \in inflight : FlushAddOk(f)
  \/ WorkerTake
  \/ WorkerGetMinute
  \/ WorkerUpsertOk
  \/ WorkerSrem
  \/ WorkerComplete
  \/ ForceFlushCall
  \/ SyncMembers
  \/ \E k \in MinuteKeys : SyncGetMinute(k)
  \/ SyncUpsertOk
  \/ SyncSrem
  \/ \E k \in MinuteKeys : MinuteExpires(k)
  \/ ResetCall
  \/ ResetKeys
  \/ ResetDel

SpecDurable == InitQueue /\ [][NextDurable]_vars

(***************************************************************************)
(* Week rows around a year boundary: day rows exist for two days that lie  *)
(* within a week of a 1 January, and checkAndAggregateToWeek runs for them *)
(***************************************************************************)
\* the years whose first day the day rows lie around
BoundaryYears == {2023, 2024}
\* the rows lie at most this many days before or after 1 January
MaxDaysOff == 7

BoundaryDays ==
  {(DaysFromCivil(y, 1, 1) + i) * 1440 : y \in BoundaryYears, i \in (0 - MaxDaysOff)..MaxDaysOff}

InitWeek ==
  /\ dateCounter = [d \in Dates |-> Nil]
  /\ dateTtl = [d \in Dates |-> FALSE]
  /\ CallsIdle
  /\ QueueIdle
  /\ clock = 1
  /\ aggregationTimer = {}
  /\ trafficHourly = [h \in HourKeys |-> 0]
  /\ \E d1, d2 \in BoundaryDays :
       /\ d1 < d2
       /\ trafficDaily = [d \in BoundaryDays |-> IF d = d1 THEN 1 ELSE IF d = d2 THEN 2 ELSE 0]
  /\ trafficWeekly = [w \in {WeekKey(WeekStart(d)) : d \in BoundaryDays} |-> 0]
  /\ trafficMonthly = [m \in MonthKeys |-> 0]
  /\ runs = EmptyBag
  /\ hourReads = [h \in HourKeys |-> <<>>]
  /\ hits = 0
  /\ started = 0
  /\ OtherIdle

\* checkAndAggregateToWeek(dayStart), called when the day row of dayStart has
\* been written: the SELECT over the day rows of its week is sent
checkAndAggregateToWeek(dayStart) ==
  /\ started < MaxAggregations
  /\ trafficDaily[dayStart] > 0
  /\ started' = started + 1
  /\ runs' = runs (+) One(Run("week_sum", dayStart, 0))
  /\ UNCHANGED <<clock, aggregationTimer, tableVars, hourReads, hits,
                 storeVars, callVars, queueVars, otherVars>>

NextWeek ==
  \/ \E d \in DOMAIN trafficDaily : checkAndAggregateToWeek(d)
  \/ \E r \in BagToSet(runs) : WeekSelect(r)
  \/ \E r \in BagToSet(runs) : WeekExisting(r)
  \/ \E r \in BagToSet(runs) : WeekUpdate(r)
  \/ \E r \in BagToSet(runs) : WeekInsert(r)

SpecWeek == InitWeek /\ [][NextWeek]_vars

(***************************************************************************)
(* The traffic-increment message of an enqueue call: todayTotal is taken   *)
(* from the answer of the date INCRBY and published after the minute       *)
(* counter has been incremented                                            *)
(***************************************************************************)
NotPublishing == <<startup, wsVars, hitVars, read, aggFailed, memVars, worker, shutdown,
                   dashboard, resync>>

\* the total the call keeps: queueTrafficEvent the answer of its INCRBY of
\* todayDate, queueTrafficEvents the answer for todayDate when the batch has
\* that date, 0 otherwise.  before and after: the counter of today around it
TodayTotal(p, newTotal) == IF IncrementedDate(p) = Today THEN newTotal ELSE 0

PublishIncrement(p) ==
  /\ IncrementDate(p)
  /\ published' = [published EXCEPT ![p] =
       [todayTotal |-> TodayTotal(p, ParseOrZero(dateCounter'[IncrementedDate(p)])),
        before |-> ParseOrZero(dateCounter[Today]),
        after |-> ParseOrZero(dateCounter'[Today]),
        sent |-> FALSE]]
  /\ UNCHANGED NotPublishing

\* the minute counter is done; publishTrafficUpdate sends the message
PublishTrafficUpdate(p) ==
  /\ MinuteSadd(p)
  /\ published' = [published EXCEPT ![p].sent = TRUE]
  /\ UNCHANGED NotPublishing

NextPublish ==
  \/ QueueCall
  \/ \E p \in Enqueuers : PublishIncrement(p)
  \/ \E p \in Enqueuers : QueueMinuteIncrby(p)
  \/ \E p \in Enqueuers : PublishTrafficUpdate(p)
  \/ \E p \in Enqueuers : QueueSchedule(p)
  \/ TimerFires
  \/ \E f \in inflight : FlushAddOk(f)

SpecPublish == InitQueue /\ [][NextPublish]_vars

(***************************************************************************)
(* The manager from its start to its shutdown: realtime messages arrive    *)
(* through the throttle, and a signal makes wsManager.shutdown clear the   *)
(* timers and await the unsubscribe                                        *)
(***************************************************************************)
NextManager ==
  \/ Hit
  \/ WsTick
  \/ ThrottleTimerFires
  \/ SubClientReady
  \/ SubscribeOk
  \/ \E sig \in Signals : Signal(sig)
  \/ UnsubscribeDone

SpecManager == InitWs /\ [][NextManager]_vars

(***************************************************************************)
(* Specifications of the counter store                                     *)
(***************************************************************************)
CounterValues == {Nil} \cup {NumberToString(n) : n \in 0..MaxDbValue}

InitCounter ==
  /\ dateCounter \in [Dates -> CounterValues]
  /\ \A d \in Dates : d # Today => dateCounter[d] = Nil
  /\ QueueIdle
  /\ dateTtl = [d \in Dates |-> dateCounter[d] # Nil]
  /\ CallsIdle
  /\ AggIdle

NoCallInFlight == \A q \in Procs : calls[q].pc \in {"idle", "done"}

\* calls are taken in slot order (the slots are interchangeable)
NextSlot(p) == \A q \in Procs : q < p => calls[q].pc # "idle"

CounterStep ==
  \/ \E p \in Procs : IncrementExpire(p)
  \/ \E p \in Procs : InitializeSet(p)
  \/ \E p \in Procs : InitializeExpire(p)

\* any interleaving of the calls
NextCounter ==
  \/ \E p \in Procs, d \in {Today}, n \in 1..MaxAmount :
       NextSlot(p) /\ IncrementIncrby(p, d, n)
  \/ \E p \in Procs, d \in {Today}, v \in 0..MaxDbValue :
       NextSlot(p) /\ InitializeGet(p, d, v)
  \/ CounterStep

\* one call at a time: a call starts only when none is in flight
NextCounterSeq ==
  \/ \E p \in Procs, d \in {Today}, n \in 1..MaxAmount :
       NextSlot(p) /\ NoCallInFlight /\ IncrementIncrby(p, d, n)
  \/ \E p \in Procs, d \in {Today}, v \in 0..MaxDbValue :
       NextSlot(p) /\ NoCallInFlight /\ InitializeGet(p, d, v)
  \/ CounterStep

SpecCounter == InitCounter /\ [][NextCounter]_vars
SpecCounterSeq == InitCounter /\ [][NextCounterSeq]_vars

\* one call at a time, syncFromDb among them
NextSyncSeq ==
  \/ NextCounterSeq
  \/ \E p \in Procs, d \in {Today}, v \in 0..MaxDbValue :
       NextSlot(p) /\ NoCallInFlight /\ SyncFromDbGet(p, d, v)
  \/ \E p \in Procs : SyncFromDbSet(p)
  \/ \E p \in Procs : SyncFromDbExpire(p)

SpecSyncSeq == InitCounter /\ [][NextSyncSeq]_vars


(***************************************************************************)
(* Properties of the counter store                                         *)
(***************************************************************************)
RECURSIVE SumArgs(_)
SumArgs(S) ==
  IF S = {} THEN 0
  ELSE LET p == CHOOSE q \in S : TRUE IN calls[p].arg + SumArgs(S \ {p})

\* the increment calls on date d whose INCRBY has executed
IncrApplied(d) == {p \in Procs : calls[p].kind = "incr" /\ calls[p].date = d}
\* the initializeFromDb calls made on date d
InitCalls(d) == {p \in Procs : calls[p].kind = "init" /\ calls[p].date = d}
\* the initializeFromDb calls on date d whose SET has executed
InitApplied(d) ==
  {p \in InitCalls(d) : calls[p].pc = "init_expire"
                        \/ (calls[p].pc = "done" /\ NeedsInit(calls[p].cur, calls[p].arg))}
AllCallsDone == \A p \in Procs : calls[p].pc = "done"

\* C2: K concurrent increment(date, 1) calls on one date key, starting from an
\* absent key and with no set in between, leave the counter at exactly K: after
\* any number k of them has executed the value is k, so no update is lost.
C2_NoLostIncrement ==
  \A d \in Dates :
    ( /\ initialCounter[d] = Nil
      /\ InitApplied(d) = {}
      /\ \A p \in IncrApplied(d) : calls[p].arg = 1 )
    => dateCounter[d] = IF IncrApplied(d) = {} THEN Nil
                        ELSE NumberToString(Cardinality(IncrApplied(d)))

C2_Witness ==
  \E d \in Dates :
    /\ initialCounter[d] = Nil
    /\ AllCallsDone
    /\ \A p \in Procs : calls[p].kind = "incr" /\ calls[p].date = d /\ calls[p].arg = 1
    /\ dateCounter[d] = NumberToString(MaxCalls)

\* C9: with no concurrent operation on the key, no step of initializeFromDb(date, D)
\* lowers the counter, and when the call returns the counter is D if the value F it
\* found was absent or below D, and still F otherwise.
C9_InitializeFromDb ==
  [][\A p \in Procs :
       (calls'[p].kind = "init" /\ calls'[p] # calls[p]) =>
         LET d == calls'[p].date
             F == calls'[p].cur
             D == calls'[p].arg
         IN /\ ParseOrZero(dateCounter'[d]) >= ParseOrZero(dateCounter[d])
            /\ calls[p].pc = "idle" => F = dateCounter[d]
            /\ calls'[p].pc = "done" =>
                 dateCounter'[d] = IF F = Nil \/ ParseInt(F) < D
                                   THEN NumberToString(D) ELSE F]_vars

\* the call found F >= D and returned leaving F in place
C9_Witness ==
  \E p \in Procs :
    /\ calls[p].kind = "init" /\ calls[p].pc = "done"
    /\ calls[p].cur # Nil /\ ParseInt(calls[p].cur) > calls[p].arg
    /\ dateCounter[calls[p].date] = calls[p].cur
    /\ \A q \in Procs : q > p => calls[q].pc = "idle"

\* C10: one initializeFromDb(date, D) interleaved with increment(date, n) calls
\* never clobbers an increment: once every call has returned the counter is at
\* least its value before the calls plus the sum of the increments, and at least D.
C10_InitializeNeverClobbers ==
  \A d \in Dates :
    (AllCallsDone /\ Cardinality(InitCalls(d)) = 1) =>
      /\ ParseOrZero(dateCounter[d]) >=
           ParseOrZero(initialCounter[d]) + SumArgs(IncrApplied(d))
      /\ \A p \in InitCalls(d) : ParseOrZero(dateCounter[d]) >= calls[p].arg

(***************************************************************************)
(* Properties of the event buffer                                          *)
(***************************************************************************)
\* every event passed to a call made so far
AcceptedEvents ==
  UNION {{EventsOf(p, enqueues[p].ts, enqueues[p].n)[i] : i \in 1..enqueues[p].n} :
         p \in Enqueuers}

\* the places where an event can be held
InBuffer == {<<"buffer", i>> : i \in 1..Len(eventBuffer)}
InFlight == UNION {{<<f, i>> : i \in 1..Len(f.eventsToFlush)} : f \in inflight}
InQueue == UNION {{<<j, i>> : i \in 1..Len(batchQueue[j])} : j \in 1..Len(batchQueue)}

\* how many times event e is held in the buffer, in a batch being flushed, in a
\* batch added to the queue
CopiesInBuffer(e) == Cardinality({x \in InBuffer : eventBuffer[x[2]] = e})
CopiesInFlight(e) == Cardinality({x \in InFlight : x[1].eventsToFlush[x[2]] = e})
CopiesInQueue(e) == Cardinality({x \in InQueue : batchQueue[x[1]][x[2]] = e})

HeldEvents ==
  {eventBuffer[x[2]] : x \in InBuffer}
    \cup {x[1].eventsToFlush[x[2]] : x \in InFlight}
    \cup {batchQueue[x[1]][x[2]] : x \in InQueue}

EnqueueRunning(p) ==
  enqueues[p].pc \in {"increment", "minute_incrby", "minute_sadd", "schedule"}

\* C1: for any interleaving of enqueue calls with flushes whose add succeeds or
\* fails, every enqueued event is held exactly once: in the live buffer, in the
\* batch being flushed, or in a batch added to the queue; and a batch whose add
\* fails is put back at the front of the buffer, ahead of what was enqueued since.
C1_NoEventLostOrDuplicated ==
  /\ [](/\ HeldEvents = AcceptedEvents
        /\ \A e \in AcceptedEvents :
             CopiesInBuffer(e) + CopiesInFlight(e) + CopiesInQueue(e) = 1)
  /\ [][\A f \in inflight :
          (f \notin inflight' /\ batchQueue' = batchQueue) =>
            eventBuffer' = f.eventsToFlush \o eventBuffer]_vars

\* the first call's flush failed and its batch is back in the buffer, ahead of
\* the events of the second call
C1_Witness ==
  /\ enqueues[1].n >= BATCH_SIZE
  /\ enqueues[1].pc = "done"
  /\ inflight = {}
  /\ batchQueue = <<>>
  /\ Len(eventBuffer) > enqueues[1].n
  /\ eventBuffer[1].call = 1
  /\ eventBuffer[Len(eventBuffer)].call = 2

\* C3: at most one flushEventBuffer run is in flight; a flush triggered (by
\* size or by the timer) while one is in flight takes no batch and leaves the
\* buffer as it is, and no event is in two flushed batches.
C3_SingleFlight ==
  /\ [](/\ Cardinality(inflight) <= 1
        /\ isProcessingBuffer <=> inflight # {}
        /\ \A e \in AcceptedEvents : CopiesInFlight(e) + CopiesInQueue(e) <= 1)
  /\ [][inflight # {} =>
          /\ inflight' \subseteq inflight
          /\ \A p \in Enqueuers :
               (enqueues[p].pc = "schedule" /\ enqueues'[p].pc # "schedule") =>
                 (eventBuffer' = eventBuffer /\ inflight' = inflight)
          /\ (flushTimer /\ ~flushTimer') =>
               (eventBuffer' = eventBuffer /\ inflight' = inflight)]_vars

\* a call of BATCH_SIZE events has returned while a flush is in flight, and its
\* events are still in the buffer: its size-triggered flush took no batch
C3_Witness ==
  \E p \in Enqueuers :
    /\ inflight # {}
    /\ enqueues[p].pc = "done"
    /\ enqueues[p].n >= BATCH_SIZE
    /\ CopiesInBuffer(EventsOf(p, enqueues[p].ts, enqueues[p].n)[1]) = 1

\* C4: whenever the buffer holds events and no flush is in flight, the flush
\* timer is armed or a call is on its way to its "Schedule flush" step, so the
\* events are flushed without any further enqueue.
C4_FlushAlwaysScheduled ==
  (eventBuffer # <<>> /\ inflight = {}) =>
    (flushTimer \/ \E p \in Enqueuers : EnqueueRunning(p))

RECURSIVE SumEvents(_, _)
SumEvents(S, k) ==
  IF S = {} THEN 0
  ELSE LET p == CHOOSE q \in S : TRUE
       IN (IF enqueues[p].ts = k THEN enqueues[p].n ELSE 0) + SumEvents(S \ {p}, k)

\* C5: when forceFlush() returns, every hit having been accepted before it was
\* called, the event buffer is empty and the MinuteBucket of every minute holds
\* the number of hits accepted for it, whatever failed on the way.
C5_ForceFlushDurable ==
  ( /\ force.pc = "done"
    /\ force.clean
    /\ \A p \in Enqueuers : enqueues[p].pc = "idle" \/ p \in force.accepted )
  => /\ eventBuffer = <<>>
     /\ \A k \in MinuteKeys : trafficMinute[k] = SumEvents(force.accepted, k)

(***************************************************************************)
(* Properties of the aggregation engine                                    *)
(***************************************************************************)
\* an hour run of hour h awaits its upsert
HourRunning(h) == \E r \in BagToSet(runs) : r.op = "hour_upsert" /\ r.at = h
\* the total the latest hour run of h read
LastRead(h) == hourReads[h][Len(hourReads[h])]
\* the latest hour run of h read the same total as the run before it
Repeated(h) ==
  /\ Len(hourReads[h]) >= 2
  /\ hourReads[h][Len(hourReads[h]) - 1] = LastRead(h)

\* C6: with one aggregation at a time, once the hour runs of an hour are over
\* and no minute row of the hour has changed since the latest one read them,
\* the hour row holds the sum of the minute rows of the hour; and a run that
\* repeats the run before it leaves the hour row as it was: whenever the hour
\* row changes, it changes to the sum, and not in a repeated run.
C6_HourAggregationIdempotent ==
  /\ [](\A h \in HourKeys :
          (hourReads[h] # <<>> /\ ~HourRunning(h) /\ LastRead(h) = MinuteSum(h))
            => trafficHourly[h] = MinuteSum(h))
  /\ [][\A h \in HourKeys :
          trafficHourly'[h] # trafficHourly[h]
            => (trafficHourly'[h] = MinuteSum(h) /\ ~Repeated(h))]_vars

\* two hour runs of one hour, one after the other, have completed over the
\* same minute rows, whose sum is positive
C6_Witness ==
  \E h \in HourKeys :
    /\ Repeated(h)
    /\ ~HourRunning(h)
    /\ LastRead(h) > 0
    /\ LastRead(h) = MinuteSum(h)
    /\ trafficHourly[h] = MinuteSum(h)

\* every minute row holds its fast count, no debounce timer is armed and no
\* aggregation run is in flight
Quiescent ==
  /\ aggregationTimer = {}
  /\ NoRun
  /\ pendingMinutes = {}
  /\ \A k \in AggMinutes : trafficMinute[k] = ParseOrZero(minuteCounter[k])

HourConsistent(h) == trafficHourly[h] = MinuteSum(h)
DayConsistent(d) == trafficDaily[d] = SumCounts(trafficHourly, d, d + 1439)
WeekConsistent(w) ==
  trafficWeekly[WeekKey(w)] = SumCounts(trafficDaily, w, w + 6 * 1440 + 1439)
MonthConsistent(m) == trafficMonthly[m] = SumCounts(trafficDaily, m, MonthEnd(m))

\* the buckets that the periodic timers cover, at any instant of the clock,
\* hold the sum of their parts
PeriodicDone ==
  \A t \in ClockTimes :
    /\ HourConsistent(HourStart(t - 60))
    /\ DayConsistent(DayStart(t - 1440))
    /\ WeekConsistent(WeekStart(t))
    /\ MonthConsistent(MonthStart(t))

\* C7: once the minute rows are written, the triggered aggregation has run
\* and the periodic aggregations have done their work, every hour row is the
\* sum of its minute rows, every day row the sum of its hour rows, and every
\* week and month row the sum of its day rows.
C7_EventuallyConsistent ==
  (Quiescent /\ PeriodicDone) =>
    /\ \A h \in HourKeys : HourConsistent(h)
    /\ \A d \in DayKeys : DayConsistent(d)
    /\ \A d \in DayKeys : WeekConsistent(WeekStart(d))
    /\ \A d \in DayKeys : MonthConsistent(MonthStart(d))

\* C8: when two or more hour runs of one hour have been made, all runs are
\* over, and no minute row of the hour has changed since the latest of them
\* read the rows, the hour row holds the total that latest run read.
C8_StaleRunNeverFinal ==
  \A h \in HourKeys :
    (Len(hourReads[h]) >= 2 /\ NoRun /\ LastRead(h) = MinuteSum(h))
      => trafficHourly[h] = LastRead(h)

(***************************************************************************)
(* Properties of syncFromDb                                                *)
(***************************************************************************)
\* C11: with no concurrent operation on the key, when syncFromDb(date, D)
\* returns the counter reads D, whatever it held before (absent, lower than D
\* or higher than D); a read is get(date): parseInt(value || "0", 10).
C11_SyncFromDbOverwrites ==
  [][\A p \in Procs :
       (calls'[p].kind = "sync" /\ calls'[p].pc = "done" /\ calls[p].pc # "done")
         => ParseOrZero(dateCounter'[calls'[p].date]) = calls'[p].arg]_vars

\* a syncFromDb call found a value above D and returned with the counter at D
C11_Witness ==
  \E p \in Procs :
    /\ calls[p].kind = "sync" /\ calls[p].pc = "done"
    /\ ParseOrZero(calls[p].cur) > calls[p].arg
    /\ dateCounter[calls[p].date] = NumberToString(calls[p].arg)
    /\ \A q \in Procs : q > p => calls[q].pc = "idle"

(***************************************************************************)
(* Properties of the startup reconciliation                                *)
(***************************************************************************)
\* C12: when initializeRedisCounters has completed without error, the fast
\* counter of every day of the rolling window (today and the six days before)
\* reads at least the sum of the minute rows of that day.
C12_StartupFloor ==
  startup.pc = "done" =>
    \A d \in RollingWindow(now) :
      ParseOrZero(dateCounter[getLocalDateString(d)]) >= SumCounts(trafficMinute, d, d + 1439)

(***************************************************************************)
(* Properties of the week rows                                             *)
(***************************************************************************)
\* ISO-8601: the week of a day runs from Monday to Sunday and belongs to the
\* year of its Thursday
IsoThursday(t) == t \div 1440 + 4 - (IF getDay(t) = 0 THEN 7 ELSE getDay(t))
IsoWeekKey(t) ==
  <<CivilFromDays(IsoThursday(t)).year,
    (IsoThursday(t) - DaysFromCivil(CivilFromDays(IsoThursday(t)).year, 1, 1)) \div 7 + 1>>

\* C13: the week row that checkAndAggregateToWeek writes for a day is keyed by
\* the ISO year and ISO week of that day, and a Saturday and the Sunday after
\* it, each with a day row, have the same week key.
C13_IsoWeekAssignment ==
  /\ \A r \in BagToSet(runs) :
       r.op \in {"week_update", "week_insert"} =>
         \A d \in DayKeys :
           (trafficDaily[d] > 0 /\ WeekStart(d) = r.at) => WeekKey(r.at) = IsoWeekKey(d)
  /\ \A d \in DayKeys :
       (getDay(d) = 6 /\ d + 1440 \in DayKeys /\ trafficDaily[d] > 0
          /\ trafficDaily[d + 1440] > 0)
         => WeekKey(WeekStart(d)) = WeekKey(WeekStart(d + 1440))

\* C14: no aggregation run inserts a week row while a row of that year and
\* week exists: whenever a run is about to execute its INSERT, the table holds
\* no row for the key.
C14_NoDuplicateInsert ==
  \A r \in BagToSet(runs) :
    r.op = "week_insert" => trafficWeekly[WeekKey(r.at)] = 0

\* C15: two consecutive broadcasts triggered by realtime messages start at
\* least minBroadcastInterval apart.
C15_BroadcastsThrottled ==
  \A i \in DOMAIN broadcastStarts :
    i > 1 => broadcastStarts[i] - broadcastStarts[i - 1] >= minBroadcastInterval

\* the realtime messages have all been handled and broadcast
BurstOver ==
  /\ broadcastStarts # <<>>
  /\ messageQueue = <<>>
  /\ broadcastThrottleTimer = {}
  /\ fetches = EmptyBag

\* C16: once a burst of realtime messages is over, the last message sent to
\* each open client carries the todayTotal of the last message received.
C16_LastSendIsLatest ==
  BurstOver =>
    \A c \in Clients :
      (socket[c] = "open" /\ sent[c] # <<>>)
        => sent[c][Len(sent[c])].currentDay = todayTotal

\* a broadcast of freshly pulled data is started
PollBroadcast == fetches' = fetches (+) One(Fetch("broadcast", 0, -1))

\* C17: a poll tick starts a broadcast of freshly pulled data when a client
\* is connected and the subscription is not ready (not yet made, failed, or
\* lost after an error), and does nothing while it is ready or nobody is
\* connected.
C17_FallbackPolling ==
  [][/\ wsCount'.polls # wsCount.polls =>
          IF clients # <<>> /\ ~subscriptionReady
          THEN PollBroadcast
          ELSE fetches' = fetches
      /\ \A c \in Clients :
           (Len(sent'[c]) > Len(sent[c]) /\ sent'[c][Len(sent'[c])].source = "poll")
             => sent'[c][Len(sent'[c])].data = todayTotal]_vars

\* a poll broadcast is in flight though the subscription was never ready
C17_Witness ==
  /\ subscription = "failed"
  /\ wsCount.polls > 0
  /\ clients # <<>>
  /\ BagIn(Fetch("broadcast", 0, -1), fetches)

C19_SendOnlyChanges ==
  \A c \in Clients :
    /\ \A i \in DOMAIN sent[c] : i > 1 => sent[c][i] # sent[c][i - 1]
    /\ (socket[c] = "open" /\ sent[c] # <<>>) => lastDataSent[c] = sent[c][Len(sent[c])]

\* C20: when the send to one client throws during a broadcast, that client
\* is removed from the set, every other open client gets the broadcast
\* (unless it is the message it was sent last), and nothing outside the
\* fan-out changes.
C20_SendFailureIsolated ==
  [][wsCount'.throws # wsCount.throws =>
       /\ \E bad \in ClientSet(clients) :
            /\ clients' = Delete(clients, bad)
            /\ \A c \in ClientSet(clients) \ {bad} :
                 socket[c] = "open" =>
                   \/ Len(sent'[c]) = Len(sent[c]) + 1
                   \/ lastDataSent[c].timestamp = wsNow
       /\ UNCHANGED NotWs]_vars

\* a date parameter of the form YYYY-MM-DD: four, two and two digits that
\* name a month and a day of it
WellFormed(dateStr) ==
  /\ Len(dateStr) = 10
  /\ dateStr[5] = "-" /\ dateStr[8] = "-"
  /\ \A i \in {1, 2, 3, 4, 6, 7, 9, 10} : IsDigit(dateStr[i])
  /\ LET month == DigitValue(dateStr[6]) * 10 + DigitValue(dateStr[7])
         day == DigitValue(dateStr[9]) * 10 + DigitValue(dateStr[10])
     IN  month \in 1..12 /\ day \in 1..31

\* C21: a POST /hit with no date or a well-formed one is answered 202, and
\* no failure during recordHit reaches the caller or the process: no other
\* status is answered and no promise rejects unhandled.
C21_HitFailuresNotSurfaced ==
  /\ \A p \in Enqueuers :
       (http[p].status # 0 /\ (http[p].date = <<>> \/ WellFormed(http[p].date)))
         => http[p].status = 202
  /\ unhandled = {}

\* C22: a POST /hit with a malformed date is answered 400 and records
\* nothing: its call never pushes an event or touches a counter.
C22_MalformedDateRejected ==
  \A p \in Enqueuers :
    (http[p].status # 0 /\ http[p].date # <<>> /\ ~WellFormed(http[p].date))
      => http[p].status = 400 /\ enqueues[p].pc = "idle"

\* C23: getTrafficForDate never fails: whatever store is unavailable, the
\* call ends with a count.
C23_ReadNeverFails == read.pc # "rejected"

\* C24: when a command of an aggregation step fails, the error is caught in
\* the step: no rejection escapes it, and the pending buffer, the batch
\* queue, the fast counters and the minute rows stay as they are.
C24_AggregationFailureIsolated ==
  [][aggFailed' # aggFailed =>
       /\ unhandled' = unhandled
       /\ UNCHANGED <<bufferVars, storeVars, minuteVars, trafficMinute>>]_vars

\* a later step of a cascade failed after the hour row was written
C24_Witness ==
  /\ aggFailed > 0
  /\ runs = EmptyBag
  /\ \E h \in HourKeys : trafficHourly[h] > 0
  /\ \A d \in DayKeys : trafficDaily[d] = 0

\* the count of a minute in a sequence of entries
RECURSIVE HeldIn(_, _)
HeldIn(entries, key) ==
  IF entries = <<>> THEN 0
  ELSE (IF Head(entries).key = key THEN Head(entries).count ELSE 0)
       + HeldIn(Tail(entries), key)

\* the count of a minute held by the flushToDatabase runs under way
RECURSIVE HeldByRuns(_, _)
HeldByRuns(S, key) ==
  IF S = {} THEN 0
  ELSE LET f == CHOOSE x \in S : TRUE
       IN  CopiesIn(f, flushes) * HeldIn(f, key) + HeldByRuns(S \ {f}, key)

\* C25: every accepted hit is counted once: per minute, the hits accepted are
\* the durable count plus the pending count plus what the runs under way hold.
C25_HitsConserved ==
  \A k \in MinuteKeys :
    accepted[k] = trafficMinute[k] + MapGet(pendingByMinute, k)
                  + HeldByRuns(BagToSet(flushes), k)

\* a write failed and everything accepted is durable all the same
C25_Witness ==
  /\ aggFailed > 0
  /\ flushes = EmptyBag
  /\ pendingByMinute = <<>>
  /\ \E k \in MinuteKeys : accepted[k] > 1
  /\ \A k \in MinuteKeys : trafficMinute[k] = accepted[k]

\* C26: a batch whose minute write fails is tried again under the retry
\* policy, never more than `attempts` times: no job is completed with a
\* failed write, and a job waits backoffDelay * 2^(n - 1) after attempt n.
C26_FailedWriteRetried ==
  /\ worker.state = "completed" => worker.failedWrites = {}
  /\ worker.attemptsMade <= attempts
  /\ worker.state = "delayed" => worker.delay = backoffDelay * Pow2(worker.attemptsMade - 1)

\* C27: the wait for the subscriber client ends, by exactly one of ready,
\* error and the timeout; subscriptionReady is true only once the subscribe
\* succeeded and false in every other case
C27_SubscriptionWaitEnds ==
  /\ [](wait.effects <= 1)
  /\ []((wait.effects = 1) <=> (subscription # "waiting"))
  /\ [](subscriptionReady => subscription = "subscribed")
  /\ <>(subscription # "waiting")

\* the timeout ended the wait: the flag is false and a fallback poll runs
C27_Witness ==
  /\ wait.by = "timeout"
  /\ subscription = "failed"
  /\ ~subscriptionReady
  /\ wait.effects = 1
  /\ BagIn(Fetch("broadcast", 0, -1), fetches)

\* C28: once a signal has come the process exits, also when a step the
\* handler awaits never completes
C28_ShutdownExits == (shutdown.pc # "running") ~> (shutdown.pc = "exited")

C30_ReconciliationRetried ==
  <>(\A d \in WeekDays(now) :
       d <= now =>
         ParseOrZero(dateCounter[getLocalDateString(d)])
           >= SumCounts(trafficMinute, d, d + 1439))

\* C31: when the calls of a burst of more than twice BATCH_SIZE hits have
\* returned, at least 2 flushes were started on the buffer size, no timer
\* having fired
C31_BurstFlushes ==
  (/\ Enqueued(MaxEnqueues) = Burst
   /\ \A p \in Enqueuers : enqueues[p].pc \in {"idle", "done"}
   /\ inflight = {})
  => Len(batchQueue) >= 2

\* the recordHits call made last
LastCall == CHOOSE p \in Enqueuers :
              /\ enqueues[p].pc # "idle"
              /\ \A q \in Enqueuers : q > p => enqueues[q].pc = "idle"

\* C32: when the recordHits calls made have all returned, a pending
\* aggregation timer is the one timer of the call made last, for the minute
\* timestamp of that call
C32_DebouncedTrigger ==
  (/\ enqueues[1].pc # "idle"
   /\ \A p \in Enqueuers : enqueues[p].pc \in {"idle", "triggered"}
   /\ aggregationTimer # {})
  => aggregationTimer = {enqueues[LastCall].ts}

\* nothing is buffered, queued, being written or pending
Flushed ==
  /\ \A p \in Enqueuers : enqueues[p].pc \in {"idle", "done"}
  /\ eventBuffer = <<>>
  /\ inflight = {}
  /\ batchQueue = <<>>
  /\ worker.state \in {"idle", "completed"}
  /\ pendingMinutes = {}

\* the fast counter of each of the last 7 days is the sum of its minute rows
FastIsDurable ==
  \A i \in 0..6 :
    LET day == DayStart(now) - i * 1440
    IN (IF getLocalDateString(day) \in DOMAIN dateCounter
        THEN ParseOrZero(dateCounter[getLocalDateString(day)]) ELSE 0)
       = SumCounts(trafficMinute, day, day + 1439)

\* C33: once the sync route has answered and everything buffered or queued
\* has been written, the fast counter of each of the last 7 days equals the
\* durable sum of the day, whatever recordHits calls ran meanwhile
C33_ResyncAuthoritative == (resync.pc = "done" /\ Flushed) => FastIsDurable

\* the minute keys of the events of a batch or of the buffer
KeysOf(events) == {events[i].timestamp : i \in 1..Len(events)}

\* an event of minute k is in the event buffer, in a batch on its way to the
\* queue, in a queued batch, or in the batch the worker is writing, or an
\* incrementMinute call for k is about to add the key to the pending set
Held(k) ==
  \/ \E p \in Enqueuers : enqueues[p].pc = "minute_sadd" /\ enqueues[p].ts = k
  \/ k \in KeysOf(eventBuffer)
  \/ \E f \in inflight : k \in KeysOf(f.eventsToFlush)
  \/ \E i \in 1..Len(batchQueue) : k \in KeysOf(batchQueue[i])
  \/ /\ worker.state \in {"active", "delayed"}
     /\ \E i \in 1..Len(worker.minutes) : worker.minutes[i] = k

\* C34: whenever the fast minute counter of a key is above its durable
\* count, the key is pending or an event of that minute is still buffered or
\* queued
C34_DifferenceIsPending ==
  \A k \in MinuteKeys :
    ParseOrZero(minuteCounter[k]) > trafficMinute[k] => (k \in pendingMinutes \/ Held(k))

\* C35: no step lowers the durable count of a minute key
C35_DurableNeverDecreases ==
  [][\A k \in MinuteKeys : trafficMinute'[k] >= trafficMinute[k]]_vars

\* C36: the week row an aggregation run is about to write is not the row of
\* another week: no day row of a different Sunday-to-Saturday week has the
\* same (year, weekNumber)
C36_WeekKeysDistinct ==
  \A r \in BagToSet(runs) :
    r.op \in {"week_update", "week_insert"} =>
      \A d \in DOMAIN trafficDaily :
        (trafficDaily[d] > 0 /\ WeekStart(d) # r.at) =>
          WeekKey(WeekStart(d)) # WeekKey(r.at)

\* the events of local date d whose call has issued its date INCRBY
RECURSIVE AcceptedFor(_, _)
AcceptedFor(d, p) ==
  IF p = 0 THEN 0
  ELSE (IF /\ enqueues[p].pc \notin {"idle", "increment"}
           /\ getLocalDateString(enqueues[p].ts) = d
        THEN enqueues[p].n ELSE 0) + AcceptedFor(d, p - 1)

\* C37: the fast counter of a date equals the number of events accepted for
\* that date, whether they came through queueTrafficEvent or queueTrafficEvents
C37_DateCounterCountsEvents ==
  \A d \in Dates : ParseOrZero(dateCounter[d]) = AcceptedFor(d, MaxEnqueues)

\* C38: the todayTotal of a published traffic-increment message is a value
\* today's fast counter had at or after the call's increment, so it is not
\* below what the counter was before the call
C38_PublishedTodayTotal ==
  \A p \in Enqueuers :
    published[p].sent =>
      /\ published[p].after <= published[p].todayTotal
      /\ published[p].todayTotal <= ParseOrZero(dateCounter[Today])
      /\ published[p].before <= published[p].todayTotal

\* wsManager.shutdown has not been called
Running == shutdown.pc = "running"

\* a timeout that will fire, within the broadcast interval
TimerArmed ==
  /\ broadcastThrottleTimer # {}
  /\ \A due \in broadcastThrottleTimer : due <= wsNow + minBroadcastInterval

\* C39: while the manager is running, a realtime message it receives is
\* broadcast at once or left in the queue with a throttle timer armed; a
\* non-empty queue always has a timer armed; the timer firing empties the
\* queue, and the queue is emptied only by the start of a broadcast
C39_QueuedIsScheduled ==
  /\ [][(/\ Running
         /\ subscription = "subscribed"
         /\ wsCount'.hits = wsCount.hits + 1)
        => \/ messageQueue' # <<>> /\ TimerArmed'
           \/ messageQueue' = <<>> /\ broadcastStarts' = Append(broadcastStarts, wsNow)]_vars
  /\ []((Running /\ messageQueue # <<>>) => TimerArmed)
  /\ [][(broadcastThrottleTimer # {} /\ broadcastThrottleTimer' = {})
        => messageQueue' = <<>>]_vars
  /\ [][(messageQueue # <<>> /\ messageQueue' = <<>>)
        => broadcastStarts' = Append(broadcastStarts, wsNow)]_vars

\* two messages wait for an armed timer after a broadcast, the manager running
C39_Witness ==
  /\ Running
  /\ Len(messageQueue) >= 2
  /\ TimerArmed
  /\ broadcastStarts # <<>>

====
